---- MODULE Spec2Model ----
(***************************************************************************)
(* Force10 client: the optimistic navigation engine.                       *)
(*                                                                         *)
(* The module models the route matcher (matcher.ts), the page cache        *)
(* (cache.ts), the preflight evaluator (preflight.ts), the navigator       *)
(* (navigator.ts) and the router.visit interceptor (patch.ts) together     *)
(* with the part of the host router the interceptor talks to: the          *)
(* 'navigate' listeners, the timers, the pending client-side render and    *)
(* the requests in flight.                                                 *)
(*                                                                         *)
(* A JavaScript string is a sequence of characters.  The scheme prefixes   *)
(* "http://" and "https://" are one character each; every other character  *)
(* is a one-letter string.                                                 *)
(***************************************************************************)
EXTENDS Integers, Sequences, FiniteSets, TLC

(***************************************************************************)
(* Bounds of the model.                                                    *)
(***************************************************************************)
\* number of router.visit calls made through the patched entry point
MaxNavs == 2
\* number of clock steps
MaxTicks == 1
\* config.cache.maxEntries of the modelled instance
MaxEntries == 2
\* the largest expiresAt of a verdict, in epoch seconds
MaxExpiry == 2
\* the longest middleware list given to check
MaxGuards == 2
\* number of clock steps of half a second of the preflight instance
MaxUnitTicks == 5
\* number of clock steps of the cache instance
MaxCacheTicks == 2
\* number of routes of a manifest given to a matcher on its own
MaxRoutes == 2
\* number of calls of initForce10
MaxInits == 4

(***************************************************************************)
(* Program constants.                                                      *)
(***************************************************************************)
\* defaultConfig.cache.ttl, 5 * 60 * 1000 ms
Ttl == 300000
\* one clock step, in ms: an entry written before the step is stale after it
TickMs == Ttl + 1
\* Date.now() / 1000
MsPerSecond == 1000

(***************************************************************************)
(* Strings.                                                                *)
(***************************************************************************)
Http == "http://"
Https == "https://"

StartsWith(s, c) == Len(s) > 0 /\ s[1] = c

EndsWith(s, c) == Len(s) > 0 /\ s[Len(s)] = c

\* index of the first occurrence of character c in s, 0 if there is none
IndexOf(s, c) ==
    IF \E i \in 1..Len(s) : s[i] = c
    THEN CHOOSE i \in 1..Len(s) : s[i] = c /\ \A j \in 1..(i - 1) : s[j] # c
    ELSE 0

\* s.split(c)[0]
Before(s, c) == IF IndexOf(s, c) = 0 THEN s ELSE SubSeq(s, 1, IndexOf(s, c) - 1)

\* s.split(c)
RECURSIVE Split(_, _)
Split(s, c) ==
    IF IndexOf(s, c) = 0
    THEN <<s>>
    ELSE <<SubSeq(s, 1, IndexOf(s, c) - 1)>>
             \o Split(SubSeq(s, IndexOf(s, c) + 1, Len(s)), c)

\* array.filter(Boolean) on an array of strings
RECURSIVE FilterBoolean(_)
FilterBoolean(a) ==
    IF a = <<>> THEN <<>>
    ELSE IF Head(a) = <<>> THEN FilterBoolean(Tail(a))
    ELSE <<Head(a)>> \o FilterBoolean(Tail(a))

(***************************************************************************)
(* matcher.ts.  A pattern and a path are strings; the RegExp compiled from *)
(* a pattern is modelled by the test it performs on the path, segment by   *)
(* segment.  The alphabet of the model has no "%", so that decodeURI and   *)
(* decodeURIComponent leave every string as it is.                         *)
(***************************************************************************)
Segments(pattern) == FilterBoolean(Split(pattern, "/"))

IsWildcard(seg) == seg = <<"*">> \/ seg = <<"*", "*">>

IsOptional(seg) == EndsWith(seg, "?")

RECURSIVE SumScores(_)
SumScores(segs) ==
    IF segs = <<>> THEN 0
    ELSE (IF IsWildcard(Head(segs)) THEN 1
          ELSE IF StartsWith(Head(segs), ":") THEN 2
          ELSE 3) + SumScores(Tail(segs))

calcSpecificity(pattern) == SumScores(Segments(pattern))

\* the RegExp built by compilePattern from the segments `pat`, applied to the
\* rest `segs` of the path: each pattern segment consumes "/" and a segment
RECURSIVE RegexSegs(_, _)
RegexSegs(pat, segs) ==
    IF pat = <<>>
    THEN \* /?$
         segs = <<>> \/ segs = << <<>> >>
    ELSE IF IsWildcard(Head(pat))
    THEN \* (?:/.*)?
         \/ RegexSegs(Tail(pat), segs)
         \/ \E k \in 1..Len(segs) :
                RegexSegs(Tail(pat), SubSeq(segs, k + 1, Len(segs)))
    ELSE IF StartsWith(Head(pat), ":")
    THEN IF IsOptional(Head(pat))
         THEN \* (?:/([^/]+))?
              \/ RegexSegs(Tail(pat), segs)
              \/ segs # <<>> /\ Head(segs) # <<>> /\ RegexSegs(Tail(pat), Tail(segs))
         ELSE \* /([^/]+)
              segs # <<>> /\ Head(segs) # <<>> /\ RegexSegs(Tail(pat), Tail(segs))
    ELSE \* /static
         segs # <<>> /\ Head(segs) = Head(pat) /\ RegexSegs(Tail(pat), Tail(segs))

\* compiled.regex.exec(path) finds a match
RegexTest(pattern, path) ==
    LET parts == Split(path, "/")
    IN  /\ Head(parts) = <<>>
        /\ RegexSegs(Segments(pattern), Tail(parts))

normalizePath(url) == Before(Before(url, "#"), "?")

\* regex.test(s) for the RegExp excludePatternToRegex builds from a glob
RECURSIVE GlobTest(_, _)
GlobTest(pattern, s) ==
    IF pattern = <<>> THEN s = <<>>
    ELSE IF Head(pattern) = "*"
    THEN \E k \in 0..Len(s) : GlobTest(Tail(pattern), SubSeq(s, k + 1, Len(s)))
    ELSE IF Head(pattern) = "?"
    THEN s # <<>> /\ GlobTest(Tail(pattern), Tail(s))
    ELSE s # <<>> /\ Head(s) = Head(pattern) /\ GlobTest(Tail(pattern), Tail(s))

\* a sort that puts a route before the routes of equal specificity
RECURSIVE InsertRoute_TiesReversed(_, _)
InsertRoute_TiesReversed(r, sorted) ==
    IF sorted = <<>> THEN <<r>>
    ELSE IF calcSpecificity(Head(sorted).pattern) > calcSpecificity(r.pattern)
    THEN <<Head(sorted)>> \o InsertRoute_TiesReversed(r, Tail(sorted))
    ELSE <<r>> \o sorted

\* Array.prototype.sort with (a, b) => b.specificity - a.specificity: stable
RECURSIVE InsertRoute(_, _)
InsertRoute(r, sorted) ==
    IF sorted = <<>> THEN <<r>>
    ELSE IF calcSpecificity(Head(sorted).pattern) >= calcSpecificity(r.pattern)
    THEN <<Head(sorted)>> \o InsertRoute(r, Tail(sorted))
    ELSE <<r>> \o sorted

RECURSIVE SortRoutes(_)
SortRoutes(routes) ==
    IF routes = <<>> THEN <<>>
    ELSE InsertRoute(routes[Len(routes)], SortRoutes(SubSeq(routes, 1, Len(routes) - 1)))

\* the manifest of the modelled application
ManifestRoutes ==
    << [pattern |-> <<"/", "u", "/", ":", "i">>, component |-> "Users/Show",
        middleware |-> <<"auth", "verified">>],
       [pattern |-> <<"/", "d">>, component |-> "Dashboard", middleware |-> <<>>],
       [pattern |-> <<"/", "u">>, component |-> "Users/Index", middleware |-> <<>>],
       [pattern |-> <<"/", "a">>, component |-> "Admin/Index", middleware |-> <<>>] >>

\* config.routes.exclude of the modelled application
ExcludePatterns == << <<"/", "a", "*">> >>

compiledRoutes == SortRoutes(ManifestRoutes)

NoMatch == [found |-> FALSE, route |-> ManifestRoutes[1], url |-> <<>>]

\* match(url) of a matcher with the compiled routes `compiled`: the first
\* compiled route whose RegExp accepts the path
matchIn(compiled, url) ==
    LET path == normalizePath(url)
        hits == {i \in 1..Len(compiled) : RegexTest(compiled[i].pattern, path)}
    IN  IF hits = {} THEN NoMatch
        ELSE [found |-> TRUE,
              route |-> compiled[CHOOSE i \in hits : \A j \in hits : i <= j],
              url |-> url]

\* matcher.match(url) of the modelled application
match(url) == matchIn(compiledRoutes, url)

isExcluded(url) ==
    \E i \in 1..Len(ExcludePatterns) : GlobTest(ExcludePatterns[i], normalizePath(url))


(***************************************************************************)
(* new URL(text) for a text that starts with a scheme.                     *)
(***************************************************************************)
IsAbsolute(text) == StartsWith(text, Http) \/ StartsWith(text, Https)

\* the host: what follows the scheme, up to the path, the query or the hash
HostOf(text) == Before(Before(Before(Tail(text), "/"), "?"), "#")

\* new URL(text) does not throw
Parseable(text) == IsAbsolute(text) /\ HostOf(text) # <<>>

OriginOf(text) == <<Head(text)>> \o HostOf(text)

\* parsedUrl.pathname
PathnameOf(text) ==
    LET rest == SubSeq(text, Len(OriginOf(text)) + 1, Len(text))
        path == normalizePath(rest)
    IN  IF path = <<>> THEN <<"/">> ELSE path

\* window.location.origin
CurrentOrigin == <<Http, "l">>

(***************************************************************************)
(* cache.ts.  The store is a Map: a sequence of entries in insertion       *)
(* order, one entry per key.  A page holds component, url, timestamp and   *)
(* props; of the props the model keeps what the engine reads back, whether *)
(* props.auth.user is set.                                                 *)
(***************************************************************************)
RECURSIVE storeDelete(_, _)
storeDelete(st, url) ==
    IF st = <<>> THEN <<>>
    ELSE IF Head(st).key = url THEN storeDelete(Tail(st), url)
    ELSE <<Head(st)>> \o storeDelete(Tail(st), url)

RECURSIVE evictIfNeeded(_)
evictIfNeeded(st) == IF Len(st) > MaxEntries THEN evictIfNeeded(Tail(st)) ELSE st

\* an expiry test that takes an entry of age ttl for expired
isExpired_AtTtl(entry, t) == t - entry.timestamp >= Ttl

isExpired(entry, t) == t - entry.timestamp > Ttl

\* a set that does not evict
cacheSet_NoEvict(st, url, page) ==
    Append(storeDelete(st, url), [key |-> url, page |-> page])

\* a set that writes an existing key in place
cacheSet_InPlace(st, url, page) ==
    IF \E i \in 1..Len(st) : st[i].key = url
    THEN [i \in 1..Len(st) |-> IF st[i].key = url THEN [key |-> url, page |-> page]
                                ELSE st[i]]
    ELSE evictIfNeeded(Append(st, [key |-> url, page |-> page]))

cacheSet(st, url, page) ==
    evictIfNeeded(Append(storeDelete(st, url), [key |-> url, page |-> page]))

cacheRemove(st, url) == storeDelete(st, url)

storeHas(st, url) == \E i \in 1..Len(st) : st[i].key = url

storeGet(st, url) == st[CHOOSE i \in 1..Len(st) : st[i].key = url].page

NoPage == [component |-> "", url |-> <<>>, user |-> FALSE, timestamp |-> 0]

getOrStale(st, url, t) ==
    IF storeHas(st, url)
    THEN [found |-> TRUE, page |-> storeGet(st, url),
          isStale |-> isExpired(storeGet(st, url), t)]
    ELSE [found |-> FALSE, page |-> NoPage, isStale |-> FALSE]

cacheGet(st, url, t) ==
    IF storeHas(st, url) /\ ~isExpired(storeGet(st, url), t)
    THEN [found |-> TRUE, page |-> storeGet(st, url)]
    ELSE [found |-> FALSE, page |-> NoPage]

\* clear()
cacheClear(st) == <<>>

\* an updateProps that merges the props and leaves the timestamp
updateProps_KeepsTimestamp(st, url, props, t) ==
    [i \in 1..Len(st) |->
        IF st[i].key = url
        THEN [st[i] EXCEPT !.page.user = IF props.hasAuth THEN props.user ELSE @]
        ELSE st[i]]

\* updateProps(url, props): the entry is changed in place; of the props the
\* model keeps auth.user, which props may or may not carry
updateProps(st, url, props, t) ==
    [i \in 1..Len(st) |->
        IF st[i].key = url
        THEN [st[i] EXCEPT !.page.user = IF props.hasAuth THEN props.user ELSE @,
                           !.page.timestamp = t]
        ELSE st[i]]

\* regex.test(s) for the RegExp patternToRegex builds: "*" becomes ".*",
\* and "?" is left as it is, the RegExp quantifier that makes the atom before
\* it optional (a pattern that starts with "?" is no RegExp: the constructor
\* throws)
RECURSIVE PatternTest(_, _)
PatternTest(pattern, s) ==
    IF pattern = <<>> THEN s = <<>>
    ELSE IF Head(pattern) = "?" THEN FALSE
    ELSE LET optional == Len(pattern) >= 2 /\ pattern[2] = "?"
             rest == IF optional THEN Tail(Tail(pattern)) ELSE Tail(pattern)
         IN  IF Head(pattern) = "*"
             THEN \E k \in 0..Len(s) : PatternTest(rest, SubSeq(s, k + 1, Len(s)))
             ELSE \/ optional /\ PatternTest(rest, s)
                  \/ s # <<>> /\ Head(s) = Head(pattern) /\ PatternTest(rest, Tail(s))

\* an invalidateByPattern that removes every key the pattern is a prefix of
RECURSIVE invalidateByPattern_Prefix(_, _)
invalidateByPattern_Prefix(st, pattern) ==
    IF st = <<>> THEN <<>>
    ELSE IF PatternTest(pattern \o <<"*">>, Head(st).key)
    THEN invalidateByPattern_Prefix(Tail(st), pattern)
    ELSE <<Head(st)>> \o invalidateByPattern_Prefix(Tail(st), pattern)

\* invalidateByPattern(pattern)
RECURSIVE invalidateByPattern(_, _)
invalidateByPattern(st, pattern) ==
    IF st = <<>> THEN <<>>
    ELSE IF PatternTest(pattern, Head(st).key)
    THEN invalidateByPattern(Tail(st), pattern)
    ELSE <<Head(st)>> \o invalidateByPattern(Tail(st), pattern)

(***************************************************************************)
(* preflight.ts.  _data maps a middleware name to a verdict; a name with   *)
(* no verdict maps to NoVerdict, and expiresAt 0 is a verdict without      *)
(* expiresAt (both are falsy for the code).                                *)
(***************************************************************************)
Guards == {"auth", "verified"}

NoVerdict == [known |-> FALSE, pass |-> FALSE, expiresAt |-> 0]

Verdict(pass, expiresAt) == [known |-> TRUE, pass |-> pass, expiresAt |-> expiresAt]

\* an expiry test that lets a verdict live through the second it expires in
expired_Strict(result, t) ==
    result.expiresAt # 0 /\ (t \div MsPerSecond) > result.expiresAt

\* result.expiresAt && Math.floor(Date.now() / 1000) >= result.expiresAt
expired(result, t) ==
    result.expiresAt # 0 /\ (t \div MsPerSecond) >= result.expiresAt

\* the loop of check, from position i on
RECURSIVE checkFrom(_, _, _, _, _)
checkFrom(data, middleware, i, hasAnyData, t) ==
    IF i > Len(middleware)
    THEN IF hasAnyData THEN "true" ELSE "null"
    ELSE LET result == data[middleware[i]]
         IN  IF ~result.known THEN checkFrom(data, middleware, i + 1, hasAnyData, t)
             ELSE IF ~result.pass THEN "false"
             ELSE IF expired(result, t) THEN "false"
             ELSE checkFrom(data, middleware, i + 1, TRUE, t)

\* a check that gives up as soon as a guard of the list has no verdict
check_UnknownDecides(data, middleware, t) ==
    IF \E i \in 1..Len(middleware) : ~data[middleware[i]].known THEN "null"
    ELSE checkFrom(data, middleware, 1, FALSE, t)

check(data, middleware, t) == checkFrom(data, middleware, 1, FALSE, t)

\* an update that merges the new verdicts into the table
update_Merge(data, table) ==
    [g \in Guards |-> IF table[g].known THEN table[g] ELSE data[g]]

\* update: _data = data
update(data, table) == table


(***************************************************************************)
(* The inputs of the model.                                                *)
(***************************************************************************)
Str(text) == [isURL |-> FALSE, text |-> text]

UrlObject(text) == [isURL |-> TRUE, text |-> text]

\* the targets given to router.visit: strings and URL objects
Hrefs ==
    { Str(<<"#", "t">>),
      Str(<<"/", "d">>),
      Str(<<"/", "u">>),
      Str(<<"/", "u", "/", "5">>),
      Str(<<"/", "a">>),
      Str(<<"/", "x">>),
      Str(<<Https, "e", "/", "u">>),
      Str(<<Http>>),
      Str(<<Http, "l", "/", "u", "?", "p">>),
      UrlObject(<<Https, "e", "/", "u">>) }

\* the options given to router.visit; an absent option is "undefined", and
\* replace is FALSE when absent
NoOptions ==
    [method |-> "undefined", replace |-> FALSE, async |-> "undefined",
     showProgress |-> "undefined", onSuccess |-> "caller", onError |-> "caller"]

CallerOptions ==
    { NoOptions,
      [NoOptions EXCEPT !.method = "get", !.replace = TRUE, !.async = "false",
                        !.showProgress = "true"],
      [NoOptions EXCEPT !.method = "post"] }

\* the verdict tables the server sends in props._force10.preflight
NoData == [g \in Guards |-> NoVerdict]

AuthPasses == [NoData EXCEPT !["auth"] = Verdict(TRUE, 0)]

VerifiedFails == [NoData EXCEPT !["auth"] = Verdict(TRUE, 0), !["verified"] = Verdict(FALSE, 0)]

AuthExpires == [NoData EXCEPT !["auth"] = Verdict(TRUE, TickMs \div MsPerSecond)]

\* props._force10_server.invalidate of a response that carries directives
Directives == << <<"/", "u">>, <<"/", "u", "/", "*">> >>

\* the tables of the page the application starts on, and of the responses
InitialTables == {NoData, AuthExpires}

ResponseTables == {AuthPasses, VerifiedFails}

LoginUrl == <<"/", "l">>

(***************************************************************************)
(* The state.                                                              *)
(***************************************************************************)
VARIABLES
    now,                      \* Date.now(), in ms
    enabled,                  \* config.enabled
    preflight,                \* whether a preflight evaluator is attached
    pfData,                   \* preflight.ts: _data
    store,                    \* cache.ts: store
    isLoading,                \* navigator.ts: _isLoading
    routerVisit,              \* the function bound to router.visit
    cancelPendingBackground,  \* patch.ts: 0 is null, n is the closure of call n
    calls,                    \* number of router.visit calls made so far
    navs,                     \* per call of patchedVisit: what its closures hold
    listeners,                \* host: calls whose fireBackground listens to 'navigate'
    timers,                   \* host: calls whose fallback timer is pending
    pendingRender,            \* host: the client-side render not yet completed
    inflight,                 \* host: requests issued by the original visit
    currentPage,              \* host: window.history.state.page
    visitCount,               \* number of calls of the original visit
    lastVisit,                \* the arguments of the last call of the original visit
    lastCall,                 \* the arguments and outcome of the last router.visit call
    unit                      \* a component instance of its own, driven directly

mainVars ==
    <<now, enabled, preflight, pfData, store, isLoading, routerVisit,
      cancelPendingBackground, calls, navs, listeners, timers, pendingRender,
      inflight, currentPage, visitCount, lastVisit, lastCall>>

vars ==
    <<now, enabled, preflight, pfData, store, isLoading, routerVisit,
      cancelPendingBackground, calls, navs, listeners, timers, pendingRender,
      inflight, currentPage, visitCount, lastVisit, lastCall, unit>>

NavIds == 1..MaxNavs

\* what call n keeps alive: the path it took, the variables its closures
\* captured (href, options, match.url, match.route.component) and the latch
\* backgroundFired; bgCalls counts the background requests issued for it and
\* settled tells which callback of its request has run; caller tells how
\* often the wrappers have called a callback of the caller's options, which
\* one, and with what
NoCallback == [times |-> 0, callback |-> "none", arg |-> "none"]

IdleNav ==
    [path |-> "idle", href |-> Str(<<>>), options |-> NoOptions, url |-> <<>>,
     component |-> "", backgroundFired |-> FALSE, bgCalls |-> 0, settled |-> "no",
     caller |-> NoCallback]

\* a call whose closures can no longer run keeps only its history
Released(nav) ==
    [IdleNav EXCEPT !.path = nav.path, !.backgroundFired = nav.backgroundFired,
                    !.bgCalls = nav.bgCalls, !.settled = nav.settled,
                    !.caller = nav.caller]

NoRender ==
    [nav |-> 0, method |-> "none", component |-> "", url |-> <<>>, cached |-> FALSE,
     user |-> FALSE]

NoVisit == [nav |-> 0, target |-> "none", options |-> "none"]

NoCall == [nav |-> 0, path |-> "idle", reason |-> "none"]

\* no component is driven on its own
NoUnit == [kind |-> "none"]

Init ==
    /\ now = 0
    /\ enabled \in BOOLEAN
    /\ preflight \in BOOLEAN
    /\ pfData \in (IF preflight THEN InitialTables ELSE {NoData})
    /\ store = <<>>
    /\ isLoading = FALSE
    /\ routerVisit = "patched"
    /\ cancelPendingBackground = 0
    /\ calls = 0
    /\ navs = [n \in NavIds |-> IdleNav]
    /\ listeners = {}
    /\ timers = {}
    /\ pendingRender = NoRender
    /\ inflight = {}
    /\ currentPage \in [url : {<<"/", "d">>}, user : BOOLEAN]
    /\ visitCount = 0
    /\ lastVisit = NoVisit
    /\ lastCall = NoCall
    /\ unit = NoUnit

(***************************************************************************)
(* The interceptor works on the variables below in sequence; G is their    *)
(* value at one point of a handler.                                        *)
(***************************************************************************)
Cur ==
    [navs |-> navs, listeners |-> listeners, timers |-> timers,
     cancel |-> cancelPendingBackground, inflight |-> inflight,
     isLoading |-> isLoading, visitCount |-> visitCount, lastVisit |-> lastVisit]

Install(g) ==
    /\ navs' = g.navs
    /\ listeners' = g.listeners
    /\ timers' = g.timers
    /\ cancelPendingBackground' = g.cancel
    /\ inflight' = g.inflight
    /\ isLoading' = g.isLoading
    /\ visitCount' = g.visitCount
    /\ lastVisit' = g.lastVisit

\* background options in which the caller's own values win
backgroundOptions_CallerWins(options) ==
    [options EXCEPT !.async = IF @ = "undefined" THEN "true" ELSE @,
                    !.replace = TRUE,
                    !.showProgress = IF @ = "undefined" THEN "false" ELSE @,
                    !.onSuccess = "background", !.onError = "background"]

backgroundOptions(options) ==
    [options EXCEPT !.async = "true", !.replace = TRUE, !.showProgress = "false",
                    !.onSuccess = "background", !.onError = "background"]

passthroughOptions(options) ==
    [options EXCEPT !.onSuccess = "passthrough", !.onError = "passthrough"]

\* how the arguments of a call of the original visit relate to the arguments
\* the caller gave to router.visit
Observed(n, callerHref, callerOptions, href, options) ==
    [nav |-> n,
     target |-> IF href = callerHref THEN "caller" ELSE "other",
     options |-> IF options = callerOptions THEN "caller"
                 ELSE IF options = passthroughOptions(callerOptions) THEN "passthrough"
                 ELSE IF options = backgroundOptions(callerOptions) THEN "background"
                 ELSE "other"]

\* a patchedVisit whose cache-gated branch returns without calling the
\* original visit
originalVisit_DropsPassthrough(g, n, callerHref, callerOptions, href, options) ==
    LET kind == IF options.onSuccess = "caller" THEN "plain" ELSE options.onSuccess
    IN  IF kind = "passthrough" THEN g
        ELSE [g EXCEPT !.inflight = @ \cup {[nav |-> IF kind = "plain" THEN 0 ELSE n,
                                             kind |-> kind, replace |-> options.replace]},
                       !.visitCount = @ + 1,
                       !.lastVisit = Observed(n, callerHref, callerOptions, href, options)]

\* originalVisit.call(router, href, options), on behalf of call n of
\* router.visit(callerHref, callerOptions); the host keeps the request, and of
\* a request without callbacks of the interceptor only that it is a replace
originalVisit(g, n, callerHref, callerOptions, href, options) ==
    LET kind == IF options.onSuccess = "caller" THEN "plain" ELSE options.onSuccess
    IN  [g EXCEPT !.inflight = @ \cup {[nav |-> IF kind = "plain" THEN 0 ELSE n,
                                        kind |-> kind, replace |-> options.replace]},
                  !.visitCount = @ + 1,
                  !.lastVisit = Observed(n, callerHref, callerOptions, href, options)]

\* fireBackground without the latch and without the clean-up: the request is
\* issued by every trigger
fireBackground_EveryTrigger(g, n) ==
    originalVisit([g EXCEPT !.navs[n].bgCalls = @ + 1, !.cancel = 0],
                  n, g.navs[n].href, g.navs[n].options,
                  g.navs[n].href, backgroundOptions(g.navs[n].options))

\* a fireBackground that leaves its 'navigate' listener subscribed
fireBackground_ListenerLeft(g, n) ==
    IF g.navs[n].backgroundFired THEN g
    ELSE originalVisit(
             [g EXCEPT !.navs[n].backgroundFired = TRUE,
                       !.navs[n].bgCalls = @ + 1,
                       !.timers = @ \ {n},
                       !.cancel = 0],
             n, g.navs[n].href, g.navs[n].options,
             g.navs[n].href, backgroundOptions(g.navs[n].options))

\* the closure fireBackground of call n, called by the event or by the timer
fireBackground(g, n) ==
    IF g.navs[n].backgroundFired THEN g
    ELSE originalVisit(
             [g EXCEPT !.navs[n].backgroundFired = TRUE,
                       !.navs[n].bgCalls = @ + 1,
                       !.listeners = @ \ {n},
                       !.timers = @ \ {n},
                       !.cancel = 0],
             n, g.navs[n].href, g.navs[n].options,
             g.navs[n].href, backgroundOptions(g.navs[n].options))

\* a cancel closure that forgets the latch and leaves the timer running
cancelPending_TimerLeft(g, n) ==
    [g EXCEPT !.listeners = @ \ {n}, !.isLoading = FALSE, !.cancel = 0]

\* the closure stored in cancelPendingBackground by call n
cancelPending(g, n) ==
    LET g1 == IF ~g.navs[n].backgroundFired
              THEN [g EXCEPT !.navs[n] = Released([@ EXCEPT !.backgroundFired = TRUE]),
                             !.listeners = @ \ {n},
                             !.timers = @ \ {n},
                             !.isLoading = FALSE]
              ELSE g
    IN  [g1 EXCEPT !.cancel = 0]

\* a patchedVisit and a remove() that do not cancel what is pending
cancelIfPending_Never(g) == g

\* if (cancelPendingBackground) cancelPendingBackground()
cancelIfPending(g) == IF g.cancel # 0 THEN cancelPending(g, g.cancel) ELSE g

\* the host dispatches 'navigate' to the listeners L
RECURSIVE emitNavigate(_, _)
emitNavigate(g, L) ==
    IF L = {} THEN g
    ELSE LET n == CHOOSE x \in L : \A y \in L : x <= y
         IN  emitNavigate(fireBackground(g, n), L \ {n})


(***************************************************************************)
(* navigator.ts                                                            *)
(***************************************************************************)
Includes(seq, x) == \E i \in 1..Len(seq) : seq[i] = x

\* a navigator that does not ask the preflight evaluator
shouldOptimisticallyNavigate_NoPreflight(m) ==
    IF ~enabled THEN FALSE
    ELSE IF Includes(m.route.middleware, "auth") /\ ~currentPage.user THEN FALSE
    ELSE TRUE

\* a navigator that trusts a true verdict without the auth fallback
shouldOptimisticallyNavigate_TrueSkipsAuth(m) ==
    IF ~enabled THEN FALSE
    ELSE IF preflight /\ check(pfData, m.route.middleware, now) = "false" THEN FALSE
    ELSE IF preflight /\ check(pfData, m.route.middleware, now) = "true" THEN TRUE
    ELSE IF Includes(m.route.middleware, "auth") /\ ~currentPage.user THEN FALSE
    ELSE TRUE

shouldOptimisticallyNavigate(m) ==
    IF ~enabled THEN FALSE
    ELSE IF preflight /\ check(pfData, m.route.middleware, now) = "false" THEN FALSE
    ELSE IF Includes(m.route.middleware, "auth") /\ ~currentPage.user THEN FALSE
    ELSE TRUE

\* an optimisticNavigate that takes its props from cache.get
optimisticPage_FreshOnly(n, m, options) ==
    LET cached == cacheGet(store, m.url, now)
    IN  [nav |-> n,
         method |-> IF options.replace THEN "replace" ELSE "push",
         component |-> m.route.component,
         url |-> m.url,
         cached |-> cached.found,
         user |-> cached.page.user]

\* the page optimisticNavigate hands to router.push or router.replace
optimisticPage(n, m, options) ==
    LET cached == getOrStale(store, m.url, now)
    IN  [nav |-> n,
         method |-> IF options.replace THEN "replace" ELSE "push",
         component |-> m.route.component,
         url |-> m.url,
         cached |-> cached.found,
         user |-> cached.page.user]

(***************************************************************************)
(* patch.ts: patchedVisit                                                  *)
(***************************************************************************)
\* urlPath as first extracted from href
urlPathOf(href) == IF href.isURL THEN PathnameOf(href.text) ELSE href.text

isHashOnly(urlPath) == StartsWith(urlPath, "#")

isSamePage(urlPath) == urlPath = currentPage.url

\* an absolute string that new URL() rejects
isInvalidUrl(urlPath) == IsAbsolute(urlPath) /\ ~Parseable(urlPath)

isExternal(urlPath) ==
    IsAbsolute(urlPath) /\ Parseable(urlPath) /\ OriginOf(urlPath) # CurrentOrigin

isNonGet(options) == options.method # "undefined" /\ options.method # "get"

\* a cache-gating test that takes an expired entry for a miss (cache.get)
cacheGated_FreshOnly(m) ==
    /\ ~cacheGet(store, m.url, now).found
    /\ preflight
    /\ check(pfData, m.route.middleware, now) = "null"

\* a cache-gating test that passes every cache miss on unless check is false
cacheGated_AnyVerdict(m) ==
    /\ ~getOrStale(store, m.url, now).found
    /\ preflight

\* the cache-gating test: no entry at all and the evaluator has no opinion
cacheGated(m) ==
    /\ ~getOrStale(store, m.url, now).found
    /\ preflight
    /\ check(pfData, m.route.middleware, now) = "null"

Outcome(path, reason, m) == [path |-> path, reason |-> reason, m |-> m]

\* the branch patchedVisit takes for href and options in the current state
Decide(href, options) ==
    LET urlPath0 == urlPathOf(href)
        urlPath == IF IsAbsolute(urlPath0) /\ Parseable(urlPath0)
                   THEN PathnameOf(urlPath0) ELSE urlPath0
        m == match(urlPath)
    IN  IF isHashOnly(urlPath0) THEN Outcome("skip", "hash", NoMatch)
        ELSE IF isSamePage(urlPath0) THEN Outcome("skip", "same", NoMatch)
        ELSE IF isExternal(urlPath0) THEN Outcome("skip", "external", NoMatch)
        ELSE IF isInvalidUrl(urlPath0) THEN Outcome("skip", "invalid", NoMatch)
        ELSE IF isNonGet(options) THEN Outcome("skip", "method", NoMatch)
        ELSE IF ~m.found THEN Outcome("skip", "nomatch", NoMatch)
        ELSE IF ~shouldOptimisticallyNavigate(m) THEN Outcome("skip", "should", m)
        ELSE IF cacheGated(m) THEN Outcome("passthrough", "gated", m)
        ELSE Outcome("optimistic", "none", m)

\* what the closures of call n hold after the call
Closure(d, href, options) ==
    IF d.path = "skip" THEN [IdleNav EXCEPT !.path = "skip"]
    ELSE IF d.path = "passthrough"
    THEN [IdleNav EXCEPT !.path = d.path, !.options = options,
                         !.url = d.m.url, !.component = d.m.route.component]
    ELSE [IdleNav EXCEPT !.path = d.path, !.href = href, !.options = options,
                         !.url = d.m.url, !.component = d.m.route.component]

\* a gate that issues the background request at once
armGate_FireAtOnce(g, n) ==
    fireBackground([g EXCEPT !.listeners = @ \cup {n}, !.timers = @ \cup {n}, !.cancel = n], n)

\* a gate whose cancel handle is stored only after the render is requested
armGate_NoHandle(g, n) == [g EXCEPT !.listeners = @ \cup {n}, !.timers = @ \cup {n}]

\* a gate without the fallback timer
armGate_NoTimer(g, n) == [g EXCEPT !.listeners = @ \cup {n}, !.cancel = n]

\* the gate of call n: listener, fallback timer and cancel handle
armGate(g, n) ==
    [g EXCEPT !.listeners = @ \cup {n}, !.timers = @ \cup {n}, !.cancel = n]

PatchedVisit(href, options) ==
    LET n == calls + 1
        g1 == cancelIfPending(Cur)
        d == Decide(href, options)
        g2 == [g1 EXCEPT !.navs[n] = Closure(d, href, options)]
    IN  /\ routerVisit = "patched"
        /\ calls < MaxNavs
        /\ calls' = n
        /\ lastCall' = [nav |-> n, path |-> d.path, reason |-> d.reason]
        /\ IF d.path = "skip"
           THEN /\ Install(originalVisit(g2, n, href, options, href, options))
                /\ UNCHANGED pendingRender
           ELSE IF d.path = "passthrough"
           THEN /\ Install(originalVisit(g2, n, href, options,
                                         href, passthroughOptions(options)))
                /\ UNCHANGED pendingRender
           ELSE /\ Install([armGate(g2, n) EXCEPT !.isLoading = TRUE])
                /\ pendingRender' = optimisticPage(n, d.m, options)
        /\ UNCHANGED <<unit, now, enabled, preflight, pfData, store, routerVisit, currentPage>>

\* router.visit is the original function: the interceptor is not involved
UnpatchedVisit(href, options) ==
    LET n == calls + 1
    IN  /\ routerVisit = "original"
        /\ calls < MaxNavs
        /\ calls' = n
        /\ lastCall' = [nav |-> n, path |-> "direct", reason |-> "unpatched"]
        /\ Install(originalVisit([Cur EXCEPT !.navs[n] = [IdleNav EXCEPT !.path = "direct"]],
                                 n, href, options, href, options))
        /\ UNCHANGED <<unit, now, enabled, preflight, pfData, store, routerVisit,
                       currentPage, pendingRender>>

\* a remove() that only restores the entry point
Remove_RestoreOnly ==
    /\ routerVisit' = "original"
    /\ UNCHANGED <<unit, now, enabled, preflight, pfData, store, isLoading,
                   cancelPendingBackground, calls, navs, listeners, timers,
                   pendingRender, inflight, currentPage, visitCount, lastVisit, lastCall>>

\* a remove() that also aborts the background requests in flight
Remove_AbortsBackground ==
    /\ routerVisit' = "original"
    /\ Install([cancelIfPending(Cur) EXCEPT
                   !.inflight = {r \in @ : r.kind # "background"}])
    /\ UNCHANGED <<unit, now, enabled, preflight, pfData, store, calls, pendingRender,
                   currentPage, lastCall>>

\* patch.remove()
Remove ==
    /\ routerVisit' = "original"
    /\ Install(cancelIfPending(Cur))
    /\ UNCHANGED <<unit, now, enabled, preflight, pfData, store, calls, pendingRender,
                   currentPage, lastCall>>

\* patch.apply()
Apply ==
    /\ routerVisit' = "patched"
    /\ UNCHANGED <<unit, now, enabled, preflight, pfData, store, isLoading,
                   cancelPendingBackground, calls, navs, listeners, timers,
                   pendingRender, inflight, currentPage, visitCount, lastVisit, lastCall>>


(***************************************************************************)
(* The host router.                                                        *)
(***************************************************************************)
\* the client-side render requested by router.push or router.replace
\* completes; router.push then fires 'navigate', router.replace does not
RenderComplete ==
    LET g0 == Cur
    IN  /\ pendingRender.nav # 0
        /\ pendingRender' = NoRender
        /\ currentPage' = [url |-> pendingRender.url,
                           user |-> IF pendingRender.cached THEN pendingRender.user
                                    ELSE currentPage.user]
        /\ Install(IF pendingRender.method = "push"
                   THEN emitNavigate(g0, g0.listeners) ELSE g0)
        /\ UNCHANGED <<unit, now, enabled, preflight, pfData, store, routerVisit, calls, lastCall>>

\* the 100 ms fallback timer of call n expires
TimerFires(n) ==
    /\ n \in timers
    /\ Install(fireBackground([Cur EXCEPT !.timers = @ \ {n}], n))
    /\ UNCHANGED <<unit, now, enabled, preflight, pfData, store, routerVisit, calls,
                   pendingRender, currentPage, lastCall>>

\* the pages the server may answer request r with: the requested view with
\* an authenticated user, under the requested URL or under one the server
\* added a query string to, or a redirect to the login view without a user;
\* with or without a verdict table
Pages(r) ==
    LET nav == navs[r.nav]
        views == IF r.kind = "plain"
                 THEN {[component |-> "Other", url |-> <<"/", "x">>, user |-> TRUE],
                       [component |-> "Auth/Login", url |-> LoginUrl, user |-> FALSE]}
                 ELSE {[component |-> nav.component, url |-> nav.url, user |-> TRUE],
                       [component |-> nav.component, url |-> nav.url \o <<"?", "p">>,
                        user |-> TRUE],
                       [component |-> "Auth/Login", url |-> LoginUrl, user |-> FALSE]}
    IN  {[component |-> v.component, url |-> v.url, user |-> v.user,
          hasPreflight |-> t[1], preflight |-> t[2], invalidate |-> t[3]] :
             v \in views,
             t \in {<<FALSE, NoData, <<>> >>, <<FALSE, NoData, Directives>>}
                      \cup {<<TRUE, d, <<>> >> : d \in ResponseTables}}

\* for (const pattern of serverDirectives.invalidate) cache.invalidateByPattern(pattern)
RECURSIVE applyDirectives(_, _)
applyDirectives(st, patterns) ==
    IF patterns = <<>> THEN st
    ELSE applyDirectives(invalidateByPattern(st, Head(patterns)), Tail(patterns))

\* an onSuccess of backgroundOptions that applies the directives before it
\* writes the response
backgroundSuccessStore_InvalidateFirst(nav, page) ==
    IF page.component # nav.component
    THEN cacheRemove(store, nav.url)
    ELSE cacheSet(applyDirectives(store, page.invalidate), nav.url,
                  [component |-> page.component, url |-> page.url,
                   user |-> page.user, timestamp |-> now])

\* an onSuccess of backgroundOptions that leaves the cache alone on a mismatch
backgroundSuccessStore_KeepOnMismatch(nav, page) ==
    IF page.component # nav.component
    THEN store
    ELSE applyDirectives(cacheSet(store, nav.url,
                                  [component |-> page.component, url |-> page.url,
                                   user |-> page.user, timestamp |-> now]),
                         page.invalidate)

\* onSuccess of backgroundOptions: the cache after the response
backgroundSuccessStore(nav, page) ==
    IF page.component # nav.component
    THEN cacheRemove(store, nav.url)
    ELSE applyDirectives(cacheSet(store, nav.url,
                                  [component |-> page.component, url |-> page.url,
                                   user |-> page.user, timestamp |-> now]),
                         page.invalidate)

\* an onSuccess of passthroughOptions that caches whatever view comes back
passthroughSuccessStore_Always(nav, page) ==
    cacheSet(store, nav.url,
             [component |-> page.component, url |-> page.url,
              user |-> page.user, timestamp |-> now])

\* onSuccess of passthroughOptions: the cache after the response
passthroughSuccessStore(nav, page) ==
    IF page.component = nav.component
    THEN cacheSet(store, nav.url,
                  [component |-> page.component, url |-> page.url,
                   user |-> page.user, timestamp |-> now])
    ELSE store

\* wrappers that do not forward a response with another view to the caller
callerNotified_NotOnMismatch(nav, callback, outcome) ==
    IF outcome = "mismatch" THEN nav
    ELSE [nav EXCEPT !.caller = [times |-> @.times + 1, callback |-> callback,
                                 arg |-> IF callback = "onSuccess" THEN "page" ELSE "errors"]]

\* if (options?.onSuccess) options.onSuccess(page) and
\* if (options?.onError) options.onError(errors): the last statement of every
\* branch of the wrappers, so the callback runs in the state the wrapper leaves
callerNotified(nav, callback, outcome) ==
    [nav EXCEPT !.caller = [times |-> @.times + 1, callback |-> callback,
                            arg |-> IF callback = "onSuccess" THEN "page" ELSE "errors"]]

\* preflight.update(page.props._force10.preflight) when the response carries it
updatedPreflight(page) ==
    IF preflight /\ page.hasPreflight THEN update(pfData, page.preflight) ELSE pfData

\* a response arrives: the host renders the page (a render still pending is
\* discarded), fires 'navigate' unless the visit was a replace, and calls onSuccess
RespondSuccess(r, page) ==
    LET n == r.nav
        g0 == [Cur EXCEPT !.inflight = @ \ {r}]
        g1 == IF r.replace THEN g0 ELSE emitNavigate(g0, g0.listeners)
        outcome == IF page.component = navs[n].component THEN "success" ELSE "mismatch"
    IN  /\ r \in inflight
        /\ page \in Pages(r)
        /\ pendingRender' = NoRender
        /\ currentPage' = [url |-> page.url, user |-> page.user]
        /\ IF r.kind = "background"
           THEN /\ pfData' = updatedPreflight(page)
                /\ store' = backgroundSuccessStore(navs[n], page)
                /\ Install([g1 EXCEPT
                              !.isLoading = FALSE,
                              !.navs[n] = Released(callerNotified([@ EXCEPT !.settled = outcome],
                                                                  "onSuccess", outcome))])
           ELSE IF r.kind = "passthrough"
           THEN /\ pfData' = updatedPreflight(page)
                /\ store' = passthroughSuccessStore(navs[n], page)
                /\ Install([g1 EXCEPT
                              !.navs[n] = Released(callerNotified([@ EXCEPT !.settled = outcome],
                                                                  "onSuccess", outcome))])
           ELSE /\ Install(g1)
                /\ UNCHANGED <<pfData, store>>
        /\ UNCHANGED <<unit, now, enabled, preflight, routerVisit, calls, lastCall>>

\* what call n keeps once the onError wrapper of its request has run
failed(nav) == Released(callerNotified([nav EXCEPT !.settled = "error"], "onError", "error"))

\* an onError that forgets the loading flag
RespondError_KeepsLoading(r) ==
    LET n == r.nav
        g0 == [Cur EXCEPT !.inflight = @ \ {r}]
    IN  /\ r \in inflight
        /\ Install(IF r.kind \in {"background", "passthrough"}
                   THEN [g0 EXCEPT !.navs[n] = failed(@)]
                   ELSE g0)
        /\ UNCHANGED <<unit, now, enabled, preflight, pfData, store, routerVisit, calls,
                       pendingRender, currentPage, lastCall>>

\* a request fails: the host calls onError and renders nothing
RespondError(r) ==
    LET n == r.nav
        g0 == [Cur EXCEPT !.inflight = @ \ {r}]
    IN  /\ r \in inflight
        /\ Install(IF r.kind = "background"
                   THEN [g0 EXCEPT !.isLoading = FALSE,
                                   !.navs[n] = failed(@)]
                   ELSE IF r.kind = "passthrough"
                   THEN [g0 EXCEPT !.navs[n] = failed(@)]
                   ELSE g0)
        /\ UNCHANGED <<unit, now, enabled, preflight, pfData, store, routerVisit, calls,
                       pendingRender, currentPage, lastCall>>

\* time passes
Tick ==
    /\ now < MaxTicks * TickMs
    /\ now' = now + TickMs
    /\ UNCHANGED <<unit, enabled, preflight, pfData, store, isLoading, routerVisit,
                   cancelPendingBackground, calls, navs, listeners, timers,
                   pendingRender, inflight, currentPage, visitCount, lastVisit, lastCall>>

Next ==
    \/ \E href \in Hrefs, options \in CallerOptions : PatchedVisit(href, options)
    \/ \E href \in Hrefs, options \in CallerOptions : UnpatchedVisit(href, options)
    \/ Remove
    \/ Apply
    \/ RenderComplete
    \/ \E n \in NavIds : TimerFires(n)
    \/ \E r \in inflight : \E page \in Pages(r) : RespondSuccess(r, page)
    \/ \E r \in inflight : RespondError(r)
    \/ Tick

Spec == Init /\ [][Next]_vars


LiveSpec == Spec /\ \A n \in NavIds : WF_vars(TimerFires(n))

\* a background request in flight ends in its success or its error callback
BackgroundSettles ==
    \E r \in inflight :
        /\ r.kind = "background"
        /\ RespondError(r) \/ \E page \in Pages(r) : RespondSuccess(r, page)

\* the fallback timers fire and the background requests settle
SettleSpec ==
    Spec /\ (\A n \in NavIds : WF_vars(TimerFires(n))) /\ WF_vars(BackgroundSettles)

(***************************************************************************)
(* Properties of the interceptor.                                          *)
(***************************************************************************)
\* call n took the optimistic path and its gate is set up, neither fired nor cancelled
Armed(n) == navs[n].path = "optimistic" /\ ~navs[n].backgroundFired

\* the gate of call n was cancelled before it fired
Cancelled(n) ==
    navs[n].path = "optimistic" /\ navs[n].backgroundFired /\ navs[n].bgCalls = 0

\* this step issues a background request for call n
IssuesBackground(n) == navs'[n].bgCalls > navs[n].bgCalls

\* this step is a call of router.visit
IsVisitCall == calls' = calls + 1

\* a step in which the host fires 'navigate'
NavigateFires ==
    \/ RenderComplete /\ pendingRender.method = "push"
    \/ \E r \in inflight : ~r.replace /\ \E page \in Pages(r) : RespondSuccess(r, page)

\* C1: a call of the patched visit that takes the optimistic path does not
\* call the original visit; the background request of a call is issued only
\* in a step in which the host fires 'navigate' or in which the fallback
\* timer of that call expires, never in a call of router.visit.
C1_BackgroundDeferred ==
    [][ /\ (IsVisitCall /\ lastCall'.path = "optimistic") => visitCount' = visitCount
        /\ \A n \in NavIds :
               IssuesBackground(n) =>
                   /\ ~IsVisitCall
                   /\ NavigateFires \/ TimerFires(n) ]_vars

\* a call took the optimistic path and its background request was issued later
C1_Witness ==
    \E n \in NavIds :
        /\ navs[n].path = "optimistic"
        /\ navs[n].bgCalls = 1
        /\ lastVisit = [nav |-> n, target |-> "caller", options |-> "background"]


\* C2: no call ever has more than one background request issued for it, and
\* once one is issued (whatever becomes of it) no later event, timer,
\* navigation or remove() issues another.
C2_AtMostOnce ==
    [][ \A n \in NavIds :
            /\ navs'[n].bgCalls <= 1
            /\ navs[n].bgCalls = 1 => navs'[n].bgCalls = 1 ]_vars

\* a background request has failed, another call was made after it, and no
\* second request was issued for the failed one
C2_Witness ==
    \E n \in NavIds :
        /\ navs[n].path = "optimistic" /\ navs[n].bgCalls = 1
        /\ navs[n].settled = "error"
        /\ calls > n
        /\ timers = {} /\ listeners = {}

\* C3 (as claimed): the background request of call n is issued only when the
\* render of call n itself completes or when the fallback timer of call n
\* expires.
C3_OwnRenderOrDeadline ==
    [][ \A n \in NavIds :
            IssuesBackground(n) =>
                \/ TimerFires(n)
                \/ RenderComplete /\ pendingRender.nav = n ]_vars

\* C4: when a call of the patched visit is made while call a is armed, call a
\* is cancelled in that step: its listener and its timer are gone, and the
\* loading flag is set after the step only if the new call itself took the
\* optimistic path.  A cancelled call stays cancelled and never issues a
\* background request.
C4_SupersededNeverFires ==
    [][ \A a \in NavIds :
            /\ (Armed(a) /\ IsVisitCall /\ routerVisit = "patched") =>
                   /\ Cancelled(a)'
                   /\ a \notin listeners' /\ a \notin timers'
                   /\ isLoading' = (lastCall'.path = "optimistic")
            /\ Cancelled(a) => Cancelled(a)' /\ ~ENABLED TimerFires(a) ]_vars

\* call a was superseded by a call that was not optimistic, and the loading flag is clear
C4_Witness ==
    \E a, b \in NavIds :
        /\ a < b
        /\ Cancelled(a)
        /\ navs[b].path \in {"skip", "passthrough"}
        /\ ~isLoading
        /\ timers = {} /\ listeners = {}

\* C5: at most one call is armed, and cancelPendingBackground is set exactly
\* when a call is armed; it is then the closure of that call.
C5_OnePending ==
    /\ Cardinality({n \in NavIds : Armed(n)}) <= 1
    /\ cancelPendingBackground # 0 <=> \E n \in NavIds : Armed(n)
    /\ cancelPendingBackground # 0 => Armed(cancelPendingBackground)

\* a second optimistic call is armed after the first one was cancelled
C5_Witness ==
    \E a, b \in NavIds :
        /\ a < b
        /\ Cancelled(a)
        /\ Armed(b) /\ cancelPendingBackground = b

\* C6: an armed call eventually has its background request issued unless it
\* is cancelled, given that a pending timer expires.
C6_EventuallyIssued ==
    \A n \in NavIds : Armed(n) ~> (navs[n].bgCalls >= 1 \/ Cancelled(n))

\* the render used router.replace, which fires no 'navigate', it is still
\* pending, and the background request was issued
C6_Witness ==
    \E n \in NavIds :
        /\ navs[n].path = "optimistic" /\ navs[n].options.replace
        /\ navs[n].bgCalls = 1
        /\ pendingRender.nav = n /\ pendingRender.method = "replace"


\* the path and query of the target of a call, as the matcher is to see it
TargetPath(href) == IF IsAbsolute(href.text) THEN PathnameOf(href.text) ELSE href.text

TargetMatch(href) == match(TargetPath(href))

\* the target is handed to the original visit as it came, in this step, and
\* nothing else happens: no render, no gate, no change of cache or verdicts
PassedUnchanged ==
    /\ visitCount' = visitCount + 1
    /\ lastVisit' = [nav |-> calls', target |-> "caller", options |-> "caller"]
    /\ lastCall'.path = "skip"
    /\ pendingRender' = pendingRender
    /\ cancelPendingBackground' = 0
    /\ listeners' \subseteq listeners /\ timers' \subseteq timers
    /\ store' = store /\ pfData' = pfData

\* the inputs C7 lists
SkipInput(href, options) ==
    \/ options.method \notin {"undefined", "get"}
    \/ ~href.isURL /\ StartsWith(href.text, "#")
    \/ ~href.isURL /\ href.text = currentPage.url
    \/ IsAbsolute(href.text)
         /\ (~Parseable(href.text) \/ OriginOf(href.text) # CurrentOrigin)
    \/ ~TargetMatch(href).found
    \/ TargetMatch(href).found /\ ~shouldOptimisticallyNavigate(TargetMatch(href))

\* C7 (as claimed): a call of the patched visit with a non-GET method, a
\* fragment-only target, the current page's URL, a cross-origin or
\* unparseable absolute URL, a target no route matches, or a target
\* shouldOptimisticallyNavigate rejects, calls the original visit once in that
\* step with the caller's target and options, renders nothing, arms no gate
\* and leaves cache and verdict table as they are.
C7_SkipChain ==
    [][ \A href \in Hrefs, options \in CallerOptions :
            (PatchedVisit(href, options) /\ SkipInput(href, options))
                => PassedUnchanged ]_vars

\* C8 (as claimed): a call of the patched visit with a target isExcluded
\* accepts is passed to the original visit unchanged and renders nothing.
C8_ExcludedNeverOptimistic ==
    [][ \A href \in Hrefs, options \in CallerOptions :
            (PatchedVisit(href, options) /\ isExcluded(TargetPath(href)))
                => PassedUnchanged ]_vars

\* the evaluator is attached, has no opinion on the guards of the route of
\* href, and the cache has no entry for the target, fresh or expired
NoOpinionNoEntry(href) ==
    /\ preflight
    /\ check(pfData, TargetMatch(href).route.middleware, now) = "null"
    /\ ~storeHas(store, TargetMatch(href).url)

\* C9: a call that passed the skip chain is handed to the original visit in
\* that step, with no render and without setting the loading flag, exactly
\* when the evaluator is attached, has no opinion and the cache has no entry
\* for the target; otherwise it renders optimistically, arms its gate, sets
\* the loading flag and does not call the original visit.
C9_CacheGating ==
    [][ \A href \in Hrefs, options \in CallerOptions :
            (PatchedVisit(href, options) /\ lastCall'.path \in {"passthrough", "optimistic"})
                => IF NoOpinionNoEntry(href)
                   THEN /\ lastCall'.path = "passthrough"
                        /\ visitCount' = visitCount + 1
                        /\ lastVisit'.nav = calls' /\ lastVisit'.target = "caller"
                        /\ pendingRender' = pendingRender
                        /\ cancelPendingBackground' = 0
                        /\ isLoading' => isLoading
                   ELSE /\ lastCall'.path = "optimistic"
                        /\ visitCount' = visitCount
                        /\ pendingRender'.nav = calls'
                        /\ navs'[calls'].path = "optimistic"
                        /\ ~navs'[calls'].backgroundFired
                        /\ cancelPendingBackground' = calls'
                        /\ calls' \in listeners' /\ calls' \in timers'
                        /\ isLoading' ]_vars

\* the evaluator is attached and has no opinion, the cache holds an expired
\* entry for the target, and the call rendered optimistically with it
C9_Witness ==
    \E n \in NavIds :
        /\ lastCall = [nav |-> n, path |-> "optimistic", reason |-> "none"]
        /\ preflight
        /\ check(pfData, TargetMatch(navs[n].href).route.middleware, now) = "null"
        /\ storeHas(store, navs[n].url)
        /\ isExpired(storeGet(store, navs[n].url), now)
        /\ pendingRender.nav = n /\ pendingRender.cached
        /\ Armed(n)

\* C10: with an evaluator attached, a call whose target matches a route for
\* whose guards check returns false is passed to the original visit with the
\* caller's arguments and renders nothing, whatever the cache holds.
C10_PreflightVeto ==
    [][ \A href \in Hrefs, options \in CallerOptions :
            ( /\ PatchedVisit(href, options)
              /\ preflight
              /\ TargetMatch(href).found
              /\ check(pfData, TargetMatch(href).route.middleware, now) = "false" )
                => PassedUnchanged ]_vars

\* the evaluator vetoed a call to /u/5 although the current page has a user
\* and the cache holds an entry for /u/5
C10_Witness ==
    /\ lastCall = [nav |-> calls, path |-> "skip", reason |-> "should"]
    /\ preflight /\ enabled /\ currentPage.user
    /\ check(pfData, <<"auth", "verified">>, now) = "false"
    /\ storeHas(store, <<"/", "u", "/", "5">>)
    /\ lastVisit = [nav |-> calls, target |-> "caller", options |-> "caller"]
    /\ pendingRender.nav = 0


(***************************************************************************)
(* preflight.ts on its own: one evaluator from createPreflight(), driven   *)
(* by update and check while the clock advances.  unit.data is _data;      *)
(* given is the argument of the last update, seen the guards some update   *)
(* gave a verdict for, result the value of the last check ("none" once     *)
(* the table or the clock has changed since).                              *)
(***************************************************************************)
HalfSecond == MsPerSecond \div 2

UnitVerdicts ==
    {NoVerdict, Verdict(TRUE, 0), Verdict(FALSE, 0)}
        \cup {Verdict(pass, e) : pass \in BOOLEAN, e \in 1..MaxExpiry}

UnitTables == [Guards -> UnitVerdicts]

UnitLists == UNION {[1..k -> Guards] : k \in 0..MaxGuards}

\* the interceptor and the host are not running
MainIdle ==
    /\ now = 0 /\ enabled = TRUE /\ preflight = TRUE /\ pfData = NoData
    /\ store = <<>> /\ isLoading = FALSE /\ routerVisit = "original"
    /\ cancelPendingBackground = 0 /\ calls = 0
    /\ navs = [n \in NavIds |-> IdleNav]
    /\ listeners = {} /\ timers = {} /\ pendingRender = NoRender /\ inflight = {}
    /\ currentPage = [url |-> <<"/", "d">>, user |-> FALSE]
    /\ visitCount = 0 /\ lastVisit = NoVisit /\ lastCall = NoCall

PreflightInit ==
    /\ MainIdle
    /\ unit = [kind |-> "preflight", data |-> NoData, given |-> NoData, seen |-> {},
               t |-> 0, middleware |-> <<>>, result |-> "none"]

\* preflight.update(table)
PreflightUpdate(table) ==
    /\ unit' = [unit EXCEPT !.data = update(@, table),
                            !.given = table,
                            !.seen = @ \cup {g \in Guards : unit.given[g].known},
                            !.middleware = <<>>,
                            !.result = "none"]
    /\ UNCHANGED mainVars

\* preflight.check(middleware)
PreflightCheck(middleware) ==
    /\ unit' = [unit EXCEPT !.middleware = middleware,
                            !.result = check(unit.data, middleware, unit.t)]
    /\ UNCHANGED mainVars

\* half a second passes
PreflightTick ==
    /\ unit.t < MaxUnitTicks * HalfSecond
    /\ unit' = [unit EXCEPT !.t = @ + HalfSecond, !.middleware = <<>>, !.result = "none"]
    /\ UNCHANGED mainVars

PreflightNext ==
    \/ \E table \in UnitTables : PreflightUpdate(table)
    \/ \E middleware \in UnitLists : PreflightCheck(middleware)
    \/ PreflightTick

PreflightSpec == PreflightInit /\ [][PreflightNext]_vars


(***************************************************************************)
(* cache.ts on its own: one cache from createCache(config), driven by its  *)
(* methods while the clock advances.  unit.store is the Map, recency the   *)
(* keys in the order of their latest set, result the value of the last     *)
(* get or getOrStale ("none" once anything has changed since).             *)
(***************************************************************************)
CacheKeys == { <<"/", "a">>, <<"/", "a", "b">>, <<"/", "u", "/", "1">> }

CachePatterns ==
    { <<"/", "u", "/", "*">>, <<"/", "a", "*">>, <<"/", "a">>, <<"*">>,
      <<"/", "a", "?">>, <<"/", "a", "b", "?">> }

CacheProps == { [hasAuth |-> FALSE, user |-> FALSE],
                [hasAuth |-> TRUE, user |-> TRUE],
                [hasAuth |-> TRUE, user |-> FALSE] }

\* the clock advances by a millisecond or by ttl
CacheClockSteps == {1, Ttl}

NoResult ==
    [op |-> "none", key |-> <<>>, found |-> FALSE, page |-> NoPage, isStale |-> FALSE,
     dropped |-> {}]

CacheInit ==
    /\ MainIdle
    /\ unit = [kind |-> "cache", store |-> <<>>, recency |-> <<>>, t |-> 0, ticks |-> 0,
               result |-> NoResult]

\* the keys of a store, in its order
RECURSIVE KeysOf(_)
KeysOf(st) == IF st = <<>> THEN <<>> ELSE <<Head(st).key>> \o KeysOf(Tail(st))

\* the sequence keys without key
RECURSIVE Without(_, _)
Without(keys, key) ==
    IF keys = <<>> THEN <<>>
    ELSE IF Head(keys) = key THEN Without(Tail(keys), key)
    ELSE <<Head(keys)>> \o Without(Tail(keys), key)

\* the keys a call took out of the store
Dropped(before, after) ==
    { before[i].key : i \in 1..Len(before) } \ { after[i].key : i \in 1..Len(after) }

\* what a call that changes the store leaves in result
Changed(op, key, after) ==
    [NoResult EXCEPT !.op = op, !.key = key, !.dropped = Dropped(unit.store, after)]

\* the keys in the order of their latest set, once url is set: url is the
\* most recent, and beyond maxEntries the least recent goes
Touched(keys, url) ==
    LET moved == Append(Without(keys, url), url)
    IN  IF Len(moved) > MaxEntries THEN Tail(moved) ELSE moved

\* cache.set(url, page) with a page stamped Date.now(), as the interceptor does
CacheSet(url, user) ==
    LET page == [component |-> "V", url |-> url, user |-> user, timestamp |-> unit.t]
    IN  /\ unit' = [unit EXCEPT !.store = cacheSet(@, url, page),
                                !.recency = Touched(@, url),
                                !.result = Changed("set", url, cacheSet(unit.store, url, page))]
        /\ UNCHANGED mainVars

\* cache.remove(url)
CacheRemove(url) ==
    /\ unit' = [unit EXCEPT !.store = cacheRemove(@, url),
                            !.recency = Without(@, url),
                            !.result = Changed("remove", url, cacheRemove(unit.store, url))]
    /\ UNCHANGED mainVars

\* cache.clear()
CacheClear ==
    /\ unit' = [unit EXCEPT !.store = cacheClear(@),
                            !.recency = <<>>,
                            !.result = Changed("clear", <<>>, cacheClear(unit.store))]
    /\ UNCHANGED mainVars

\* cache.updateProps(url, props); result.page keeps the entry the call found
CacheUpdateProps(url, props) ==
    /\ unit' = [unit EXCEPT
                  !.store = updateProps(@, url, props, unit.t),
                  !.result = [Changed("updateProps", url,
                                      updateProps(unit.store, url, props, unit.t))
                                 EXCEPT !.found = storeHas(unit.store, url),
                                        !.page = IF storeHas(unit.store, url)
                                                 THEN storeGet(unit.store, url)
                                                 ELSE NoPage]]
    /\ UNCHANGED mainVars

\* cache.invalidateByPattern(pattern)
CacheInvalidate(pattern) ==
    /\ unit' = [unit EXCEPT
                  !.store = invalidateByPattern(@, pattern),
                  !.recency = SelectSeq(@, LAMBDA k :
                                 storeHas(invalidateByPattern(unit.store, pattern), k)),
                  !.result = Changed("invalidateByPattern", pattern,
                                     invalidateByPattern(unit.store, pattern))]
    /\ UNCHANGED mainVars

\* cache.get(url)
CacheGet(url) ==
    /\ unit' = [unit EXCEPT
                  !.result = [op |-> "get", key |-> url,
                              found |-> cacheGet(unit.store, url, unit.t).found,
                              page |-> cacheGet(unit.store, url, unit.t).page,
                              isStale |-> FALSE, dropped |-> {}]]
    /\ UNCHANGED mainVars

\* cache.getOrStale(url)
CacheGetOrStale(url) ==
    /\ unit' = [unit EXCEPT
                  !.result = [op |-> "getOrStale", key |-> url,
                              found |-> getOrStale(unit.store, url, unit.t).found,
                              page |-> getOrStale(unit.store, url, unit.t).page,
                              isStale |-> getOrStale(unit.store, url, unit.t).isStale,
                              dropped |-> {}]]
    /\ UNCHANGED mainVars

\* time passes
CacheTick(ms) ==
    /\ unit.ticks < MaxCacheTicks
    /\ unit' = [unit EXCEPT !.t = @ + ms, !.ticks = @ + 1, !.result = NoResult]
    /\ UNCHANGED mainVars

CacheNext ==
    \/ \E url \in CacheKeys, user \in BOOLEAN : CacheSet(url, user)
    \/ \E url \in CacheKeys : CacheRemove(url)
    \/ CacheClear
    \/ \E url \in CacheKeys, props \in CacheProps : CacheUpdateProps(url, props)
    \/ \E pattern \in CachePatterns : CacheInvalidate(pattern)
    \/ \E url \in CacheKeys : CacheGet(url)
    \/ \E url \in CacheKeys : CacheGetOrStale(url)
    \/ \E ms \in CacheClockSteps : CacheTick(ms)

CacheSpec == CacheInit /\ [][CacheNext]_vars

(***************************************************************************)
(* Properties of the preflight gate, the response callbacks and remove().  *)
(***************************************************************************)
\* a GET call whose target matches a route that check accepts and that is
\* not fragment-only, same-page or cross-origin
PermittedInput(href, options) ==
    /\ enabled /\ preflight
    /\ options.method \in {"undefined", "get"}
    /\ ~StartsWith(href.text, "#")
    /\ href.text # currentPage.url /\ TargetPath(href) # currentPage.url
    /\ IsAbsolute(href.text) => (Parseable(href.text) /\ OriginOf(href.text) = CurrentOrigin)
    /\ TargetMatch(href).found
    /\ check(pfData, TargetMatch(href).route.middleware, now) = "true"

\* the call renders optimistically and does not call the original visit
RendersOptimistically ==
    /\ lastCall'.path = "optimistic"
    /\ pendingRender'.nav = calls'
    /\ visitCount' = visitCount

\* C11 (as claimed): with the engine enabled, a matched GET call that is not
\* fragment-only, same-page or cross-origin and for whose guards check returns
\* true is rendered optimistically, also on a cache miss.
C11_TruePermits ==
    [][ \A href \in Hrefs, options \in CallerOptions :
            (PatchedVisit(href, options) /\ PermittedInput(href, options))
                => RendersOptimistically ]_vars

\* C11 (amended): the same, provided the current page's props carry
\* auth.user whenever the route's guards include auth; without it the call
\* is passed to the original visit although check returns true.
C11_TruePermitsWithUser ==
    [][ \A href \in Hrefs, options \in CallerOptions :
            (PatchedVisit(href, options) /\ PermittedInput(href, options))
                => IF Includes(TargetMatch(href).route.middleware, "auth") /\ ~currentPage.user
                   THEN PassedUnchanged
                   ELSE RendersOptimistically ]_vars

\* check returned true for a route guarded by auth, the cache had no entry
\* for the target, and the call rendered optimistically
C11_Witness ==
    \E n \in NavIds :
        /\ lastCall = [nav |-> n, path |-> "optimistic", reason |-> "none"]
        /\ preflight /\ currentPage.user
        /\ navs[n].component = "Users/Show"
        /\ check(pfData, <<"auth", "verified">>, now) = "true"
        /\ pendingRender.nav = n /\ ~pendingRender.cached
        /\ ~storeHas(store, navs[n].url)

\* in this step the background request of call n gets the response page
BackgroundSucceeds(n, page) ==
    \E r \in inflight :
        r.kind = "background" /\ r.nav = n /\ page \in Pages(r) /\ RespondSuccess(r, page)

\* every entry of st2 is an entry of st1
WithinStore(st2, st1) == \A i \in 1..Len(st2) : \E j \in 1..Len(st1) : st2[i] = st1[j]

\* C12: when a background request succeeds with a view other than the
\* predicted one, the entry of the predicted URL is gone afterwards, the
\* response writes no entry, and the loading flag is cleared.
C12_MismatchRemoves ==
    [][ \A n \in NavIds :
            \A page \in [component : {"Auth/Login"}, url : {LoginUrl}, user : {FALSE},
                         hasPreflight : BOOLEAN,
                         preflight : {NoData} \cup ResponseTables,
                         invalidate : {<<>>, Directives}] :
                (BackgroundSucceeds(n, page) /\ page.component # navs[n].component)
                    => /\ ~storeHas(store', navs[n].url)
                       /\ WithinStore(store', store)
                       /\ \A i \in 1..Len(store) :
                              store[i].key # navs[n].url => \E j \in 1..Len(store') : store'[j] = store[i]
                       /\ ~isLoading' ]_vars

\* an entry was written by the first call; the second call predicted the
\* same URL from the cache, its background request came back with another
\* view, and the entry is gone
C12_Witness ==
    /\ navs[1].settled = "success"
    /\ navs[2].path = "optimistic" /\ navs[2].settled = "mismatch"
    /\ store = <<>>
    /\ ~isLoading
    /\ currentPage.url = LoginUrl

\* the pages a background request of call n can be answered with
MatchingPages(n) ==
    {page \in [component : {navs[n].component},
               url : {navs[n].url, navs[n].url \o <<"?", "p">>},
               user : {TRUE}, hasPreflight : BOOLEAN,
               preflight : {NoData} \cup ResponseTables,
               invalidate : {<<>>, Directives}] : TRUE}

\* C13 (as claimed): when a background request succeeds with the predicted
\* view, the response is in the cache under the URL of the response page,
\* also when that URL differs from the predicted one (responses that carry
\* invalidation directives are left aside here).
C13_KeyedByPageUrl ==
    [][ \A n \in NavIds : \A page \in MatchingPages(n) :
            (BackgroundSucceeds(n, page) /\ page.invalidate = <<>>)
                => /\ storeHas(store', page.url)
                   /\ storeGet(store', page.url) =
                          [component |-> page.component, url |-> page.url,
                           user |-> page.user, timestamp |-> now] ]_vars

\* in this step the passed-through request of call n gets the response page
PassthroughSucceeds(n, page) ==
    \E r \in inflight :
        r.kind = "passthrough" /\ r.nav = n /\ page \in Pages(r) /\ RespondSuccess(r, page)

\* C14: on the cache-gated passthrough path the success callback writes the
\* response under the predicted URL if the response's view is the predicted
\* one, and leaves the cache as it is otherwise.
C14_PassthroughSeeds ==
    [][ \A n \in NavIds :
            \A page \in MatchingPages(n) \cup
                        [component : {"Auth/Login"}, url : {LoginUrl}, user : {FALSE},
                         hasPreflight : BOOLEAN, preflight : {NoData} \cup ResponseTables,
                         invalidate : {<<>>, Directives}] :
                PassthroughSucceeds(n, page)
                    => IF page.component = navs[n].component
                       THEN /\ storeHas(store', navs[n].url)
                            /\ storeGet(store', navs[n].url) =
                                   [component |-> page.component, url |-> page.url,
                                    user |-> page.user, timestamp |-> now]
                       ELSE store' = store ]_vars

\* one passed-through call seeded the cache, another came back with the
\* login view and left the cache as it was
C14_Witness ==
    /\ navs[1].path = "passthrough" /\ navs[1].settled = "success"
    /\ navs[2].path = "passthrough" /\ navs[2].settled = "mismatch"
    /\ Len(store) = 1
    /\ store[1].page.component # "Auth/Login"

\* call n rendered optimistically and its background request has neither
\* settled nor been cancelled
Pending(n) ==
    navs[n].path = "optimistic" /\ navs[n].settled = "no" /\ ~Cancelled(n)

\* C15 (as claimed): the loading flag is set in every state in which some
\* optimistic call is pending, whatever other calls do in the meantime.
C15_LoadingWhilePending == \A n \in NavIds : Pending(n) => isLoading

\* C16: a loading flag that is set is eventually cleared; success, mismatch
\* and error of a background request and the cancellation of a gate each
\* clear it in their step.
C16_LoadingCleared ==
    /\ isLoading ~> ~isLoading
    /\ [][ \A n \in NavIds :
               /\ (navs[n].path = "optimistic" /\ navs[n].settled = "no"
                     /\ navs'[n].settled # "no") => ~isLoading'
               /\ (Armed(n) /\ Cancelled(n)')
                     => (isLoading' => (IsVisitCall /\ lastCall'.path = "optimistic")) ]_vars

\* the flag was set by a call whose background request then failed
C16_Witness ==
    \E n \in NavIds :
        /\ navs[n].path = "optimistic" /\ navs[n].bgCalls = 1
        /\ navs[n].settled = "error"
        /\ lastCall.nav = n
        /\ ~isLoading

\* C17: remove() makes router.visit the original function again; a call
\* that was armed is cancelled by it, loses its listener and its timer, and
\* never issues its background request; the loading flag it set is cleared.
C17_RemoveCancels ==
    [][ /\ Remove => /\ routerVisit' = "original"
                     /\ \A n \in NavIds :
                            Armed(n) => /\ Cancelled(n)'
                                        /\ n \notin listeners' /\ n \notin timers'
                                        /\ ~isLoading'
                                        /\ cancelPendingBackground' = 0
        /\ \A n \in NavIds :
               Cancelled(n) => /\ navs'[n].bgCalls = 0
                               /\ ~ENABLED TimerFires(n) ]_vars

\* remove() was called while the last call was armed
C17_Witness ==
    \E n \in NavIds :
        /\ calls = n /\ lastCall.nav = n
        /\ Cancelled(n)
        /\ routerVisit = "original"
        /\ ~isLoading /\ timers = {} /\ listeners = {}
        /\ now > 0


(***************************************************************************)
(* Properties of the preflight evaluator.                                  *)
(***************************************************************************)
\* the current time of the evaluator in epoch seconds
UnitSeconds == unit.t \div MsPerSecond

\* the verdict recorded for the i-th guard of the list last checked
Recorded(i) == unit.data[unit.middleware[i]]

Checked == unit.kind = "preflight" /\ unit.result # "none"

\* a verdict that fails, or passes, wherever the expiry boundary lies
ClearlyFails(v) == ~v.pass \/ (v.expiresAt # 0 /\ v.expiresAt < UnitSeconds)

ClearlyPasses(v) == v.pass /\ (v.expiresAt = 0 \/ v.expiresAt > UnitSeconds)

\* C18: check returns false if some guard of the list has a recorded failing
\* verdict, true if some guard of the list has a recorded verdict and none of
\* them fails, and none if no guard of the list has a recorded verdict (the
\* empty list included); guards without a verdict do not change the result.
C18_ThreeValued ==
    Checked =>
        LET idx == 1..Len(unit.middleware)
        IN  /\ (\E i \in idx : Recorded(i).known /\ ClearlyFails(Recorded(i)))
                   => unit.result = "false"
            /\ ( /\ \E i \in idx : Recorded(i).known
                 /\ \A i \in idx : Recorded(i).known => ClearlyPasses(Recorded(i)) )
                   => unit.result = "true"
            /\ (\A i \in idx : ~Recorded(i).known) => unit.result = "null"

\* check returned true for a list of a passing guard and a guard without a
\* verdict
C18_Witness ==
    /\ Checked
    /\ unit.middleware = <<"verified", "auth">>
    /\ ~unit.data["verified"].known
    /\ unit.data["auth"] = Verdict(TRUE, 0)
    /\ unit.result = "true"

\* all recorded verdicts of the list last checked have pass = true
AllRecordedPass ==
    \A i \in 1..Len(unit.middleware) : Recorded(i).known => Recorded(i).pass

\* C19 (as claimed): verdicts with pass = true make check return false
\* exactly when one of them carries an expiresAt strictly earlier than the
\* current epoch second; an expiresAt equal to the current second does not fail.
C19_ExpiresStrictlyBefore ==
    (Checked /\ AllRecordedPass) =>
        ( unit.result = "false" <=>
            \E i \in 1..Len(unit.middleware) :
                /\ Recorded(i).known
                /\ Recorded(i).expiresAt # 0
                /\ Recorded(i).expiresAt < UnitSeconds )

\* C19 (amended): verdicts with pass = true make check return false exactly
\* when one of them carries an expiresAt that is not later than the current
\* epoch second; an expiresAt equal to the current second fails.
C19_ExpiresAtOrBefore ==
    (Checked /\ AllRecordedPass) =>
        ( unit.result = "false" <=>
            \E i \in 1..Len(unit.middleware) :
                /\ Recorded(i).known
                /\ Recorded(i).expiresAt # 0
                /\ Recorded(i).expiresAt <= UnitSeconds )

\* check returned false in the very second a passing verdict expires in
C19_Witness ==
    /\ Checked
    /\ unit.middleware = <<"auth">>
    /\ unit.data["auth"] = Verdict(TRUE, 1)
    /\ UnitSeconds = 1
    /\ unit.result = "false"

\* C20: check depends only on the table of the last update; a guard that
\* had a verdict in an earlier table and has none in the last one is unknown.
C20_UpdateReplaces ==
    Checked =>
        /\ unit.result = check(unit.given, unit.middleware, unit.t)
        /\ (\A i \in 1..Len(unit.middleware) : ~unit.given[unit.middleware[i]].known)
               => unit.result = "null"

\* auth had a verdict in an earlier table and has none in the last one, and
\* check of auth returned none
C20_Witness ==
    /\ Checked
    /\ unit.middleware = <<"auth">>
    /\ "auth" \in unit.seen
    /\ ~unit.given["auth"].known
    /\ unit.given["verified"].known
    /\ unit.result = "null"

(***************************************************************************)
(* matcher.ts on its own: createMatcher(manifest, config) for a manifest   *)
(* of up to MaxRoutes routes, and match(url) on the matcher it returns.    *)
(* unit.compiled is compiledRoutes, unit.result the value of the last      *)
(* match.                                                                  *)
(***************************************************************************)
MatcherRoutes ==
    { [pattern |-> <<"/", "u">>, component |-> "Users/Index", middleware |-> <<>>],
      [pattern |-> <<"/", "u", "/", "c">>, component |-> "Users/Create", middleware |-> <<>>],
      [pattern |-> <<"/", "u", "/", ":", "i">>, component |-> "Users/Show", middleware |-> <<>>],
      [pattern |-> <<"/", "u", "/", "*">>, component |-> "Users/Any", middleware |-> <<>>],
      [pattern |-> <<"/", ":", "s", "/", ":", "i", "?">>, component |-> "Section",
       middleware |-> <<>>],
      [pattern |-> <<"/", "*">>, component |-> "Fallback", middleware |-> <<>>] }

MatcherManifests == UNION { [1..k -> MatcherRoutes] : k \in 1..MaxRoutes }

MatcherUrls ==
    { <<"/", "u">>, <<"/", "u", "/", "c">>, <<"/", "u", "/", "5">>, <<"/", "k">>,
      <<"/", "u", "?", "p">>, <<"/", "u", "/">>, <<"/", "u", "/", "5", "#", "t">> }

MatcherInit ==
    /\ MainIdle
    /\ \E manifest \in MatcherManifests :
          unit = [kind |-> "matcher", manifest |-> manifest,
                  compiled |-> SortRoutes(manifest), url |-> <<>>, result |-> NoMatch]

\* createMatcher(manifest, config) replaces the matcher
MatcherCreate(manifest) ==
    /\ unit' = [kind |-> "matcher", manifest |-> manifest,
                compiled |-> SortRoutes(manifest), url |-> <<>>, result |-> NoMatch]
    /\ UNCHANGED mainVars

\* matcher.match(url)
MatcherMatch(url) ==
    /\ unit' = [unit EXCEPT !.url = url, !.result = matchIn(unit.compiled, url)]
    /\ UNCHANGED mainVars

MatcherNext ==
    \/ \E manifest \in MatcherManifests : MatcherCreate(manifest)
    \/ \E url \in MatcherUrls : MatcherMatch(url)

MatcherSpec == MatcherInit /\ [][MatcherNext]_vars

(***************************************************************************)
(* index.ts on its own: initForce10 and the teardown functions it returns. *)
(* Calls of initForce10 are numbered; unit.visit is router.visit (0 the    *)
(* host's function, k the patchedVisit installed by call k), config the    *)
(* call whose createConfig wrote _config (0: the default), navigator the   *)
(* call that created _navigator (0: null), handles what each call          *)
(* returned, and captured the originalVisit the patch of each call holds.  *)
(* No navigation is going on, so remove() has no pending request to        *)
(* cancel.                                                                 *)
(***************************************************************************)
EngineInit ==
    /\ MainIdle
    /\ unit = [kind |-> "engine", initialized |-> FALSE, navigator |-> 0, config |-> 0,
               visit |-> 0, handles |-> <<>>, captured |-> <<>>,
               last |-> [op |-> "none", call |-> 0]]

\* what a call returns without touching anything: () => {}
NoopHandle(why) ==
    [unit EXCEPT !.handles = Append(@, why), !.captured = Append(@, 0),
                 !.last = [op |-> "init", call |-> Len(unit.handles) + 1]]

\* the manifests given to initForce10: with routes, with an empty route
\* list, without a route list, and no manifest at all
Manifests == {"routes", "empty", "noRoutes", "missing"}

\* an initForce10 that does not validate the manifest
initBody_NoManifestCheck(on, manifest) ==
    LET i == Len(unit.handles) + 1
    IN  IF ~on THEN [NoopHandle("disabled") EXCEPT !.config = i]
        ELSE [unit EXCEPT !.config = i, !.navigator = i, !.visit = i,
                          !.initialized = TRUE,
                          !.handles = Append(@, "real"),
                          !.captured = Append(@, unit.visit),
                          !.last = [op |-> "init", call |-> i]]

\* initForce10 from createConfig on
initBody(on, manifest) ==
    LET i == Len(unit.handles) + 1
    IN  IF ~on THEN [NoopHandle("disabled") EXCEPT !.config = i]
        ELSE IF manifest # "routes" THEN [NoopHandle("empty") EXCEPT !.config = i]
        ELSE [unit EXCEPT !.config = i, !.navigator = i, !.visit = i,
                          !.initialized = TRUE,
                          !.handles = Append(@, "real"),
                          !.captured = Append(@, unit.visit),
                          !.last = [op |-> "init", call |-> i]]

\* an initForce10 without the double-init guard
initForce10_NoGuard(hasWindow, on, manifest) ==
    /\ Len(unit.handles) < MaxInits
    /\ unit' = IF ~hasWindow THEN NoopHandle("ssr") ELSE initBody(on, manifest)
    /\ UNCHANGED mainVars

\* initForce10(manifest, config), with or without a window, for a config
\* that enables the engine or not
initForce10(hasWindow, on, manifest) ==
    /\ Len(unit.handles) < MaxInits
    /\ unit' = IF ~hasWindow THEN NoopHandle("ssr")
               ELSE IF unit.initialized THEN NoopHandle("guard")
               ELSE initBody(on, manifest)
    /\ UNCHANGED mainVars

\* the function returned by call i is called
Teardown(i) ==
    /\ i \in 1..Len(unit.handles)
    /\ unit' = IF unit.handles[i] = "real"
               THEN [unit EXCEPT !.visit = unit.captured[i], !.navigator = 0,
                                 !.initialized = FALSE,
                                 !.last = [op |-> "teardown", call |-> i]]
               ELSE [unit EXCEPT !.last = [op |-> "teardown", call |-> i]]
    /\ UNCHANGED mainVars

EngineNext ==
    \/ \E hasWindow \in BOOLEAN, on \in BOOLEAN, manifest \in Manifests :
          initForce10(hasWindow, on, manifest)
    \/ \E i \in 1..MaxInits : Teardown(i)

EngineSpec == EngineInit /\ [][EngineNext]_vars

(***************************************************************************)
(* Properties of the cache on its own (CacheSpec).                         *)
(***************************************************************************)
\* C21: after any sequence of set, remove, clear, updateProps and
\* invalidateByPattern calls the cache holds at most maxEntries entries and at
\* most one entry per URL key.
C21_BoundedOnePerKey ==
    /\ Len(unit.store) <= MaxEntries
    /\ \A i, j \in 1..Len(unit.store) : unit.store[i].key = unit.store[j].key => i = j

\* a set on a full cache has just evicted an entry
C21_Witness ==
    /\ unit.kind = "cache"
    /\ unit.result.op = "set"
    /\ unit.result.dropped # {}
    /\ Len(unit.store) = MaxEntries

C23_StaleAfterTtl ==
    [][\A url \in CacheKeys :
          /\ CacheGetOrStale(url) =>
                /\ unit'.result.found = storeHas(unit.store, url)
                /\ storeHas(unit.store, url) =>
                      /\ unit'.result.page = storeGet(unit.store, url)
                      /\ unit'.result.isStale =
                            (unit.t - storeGet(unit.store, url).timestamp > Ttl)
          /\ CacheGet(url) =>
                /\ unit'.result.found =
                      /\ storeHas(unit.store, url)
                      /\ unit.t - storeGet(unit.store, url).timestamp <= Ttl
                /\ unit'.result.found => unit'.result.page = storeGet(unit.store, url)]_vars

\* get has returned an entry whose age is exactly ttl
C23_Witness ==
    /\ unit.kind = "cache"
    /\ unit.result.op = "get"
    /\ unit.result.found
    /\ unit.t - unit.result.page.timestamp = Ttl

\* a pattern of "*" and characters that stand for themselves
PlainGlob(pattern) == \A i \in 1..Len(pattern) : pattern[i] # "?"

C25_SameAsExclude ==
    [][\A pattern \in CachePatterns :
          CacheInvalidate(pattern) =>
              \A i \in 1..Len(unit.store) :
                  ~storeHas(unit'.store, unit.store[i].key)
                      <=> GlobTest(pattern, unit.store[i].key)]_vars

(***************************************************************************)
(* Properties of the target's query string, of optimisticNavigate and of   *)
(* the background request (Spec).                                          *)
(***************************************************************************)
\* path and query string of a target
TargetWithQuery(href) ==
    IF IsAbsolute(href.text)
    THEN LET rest == Before(SubSeq(href.text, Len(OriginOf(href.text)) + 1, Len(href.text)),
                            "#")
         IN  IF rest = <<>> \/ Head(rest) # "/" THEN <<"/">> \o rest ELSE rest
    ELSE href.text

\* C27: for every form of same-origin target that reaches the matcher, the
\* URL given to the matcher, which is the cache key of the call, is the
\* target's path with its query string.
C27_QueryKept ==
    [][\A href \in Hrefs, options \in CallerOptions :
          (PatchedVisit(href, options) /\ lastCall'.path \in {"optimistic", "passthrough"})
              => navs'[calls'].url = TargetWithQuery(href)]_vars

C29_BackgroundOptions ==
    [][\A n \in NavIds :
          IssuesBackground(n) =>
              LET issued == backgroundOptions(navs[n].options)
              IN  /\ lastVisit' = [nav |-> n, target |-> "caller", options |-> "background"]
                  /\ issued.async = "true"
                  /\ issued.replace = TRUE
                  /\ issued.showProgress = "false"
                  /\ issued.onSuccess = "background"
                  /\ issued.onError = "background"
                  /\ issued.method = navs[n].options.method
                  /\ [nav |-> n, kind |-> "background", replace |-> TRUE] \in inflight']_vars

\* the background request of a caller that passed its own async and
\* showProgress has been issued
C29_Witness ==
    \E n \in NavIds :
        /\ navs[n].backgroundFired
        /\ navs[n].options.async = "false"
        /\ navs[n].options.showProgress = "true"
        /\ lastVisit = [nav |-> n, target |-> "caller", options |-> "background"]

(***************************************************************************)
(* Properties of the gate's life cycle, of the calls of the patched visit  *)
(* and of shouldOptimisticallyNavigate (Spec).                             *)
(***************************************************************************)
\* the background request of call n, as the host holds it
BackgroundRequest(n) == [nav |-> n, kind |-> "background", replace |-> TRUE]

\* the background request of call n has been issued and not answered yet
Fired(n) == navs[n].path = "optimistic" /\ navs[n].bgCalls = 1 /\ navs[n].settled = "no"

\* C31: the gate of an optimistic navigation only moves from armed to fired
\* or from armed to cancelled.  Once the latch is set it stays set and no
\* further request is issued; a request that was issued stays with the host
\* until one of its callbacks has run, whatever calls and remove() follow; a
\* cancelled gate has no request and never settles.
C31_GateOneWay ==
    /\ [](\A n \in NavIds :
             /\ Fired(n) => BackgroundRequest(n) \in inflight
             /\ Cancelled(n) => navs[n].settled = "no" /\ BackgroundRequest(n) \notin inflight)
    /\ [][\A n \in NavIds :
             /\ (navs[n].path = "optimistic" /\ navs[n].backgroundFired) =>
                   /\ navs'[n].path = "optimistic"
                   /\ navs'[n].backgroundFired
                   /\ navs'[n].bgCalls = navs[n].bgCalls
             /\ Fired(n) =>
                   \/ navs'[n].settled = "no" /\ BackgroundRequest(n) \in inflight'
                   \/ navs'[n].settled # "no" /\ BackgroundRequest(n) \notin inflight'
             /\ navs[n].settled # "no" => navs'[n].settled = navs[n].settled]_vars

\* the request of the first call is still in flight after a second call and
\* a remove(), which cancelled the gate of the second call
C31_Witness ==
    /\ MaxNavs >= 2
    /\ Fired(1)
    /\ BackgroundRequest(1) \in inflight
    /\ Cancelled(2)
    /\ routerVisit = "original"

\* C32: once the gate of an optimistic navigation has fired or been
\* cancelled, its 'navigate' subscription and its fallback timer are gone, and
\* at most one subscription and one timer of the interceptor are live.
C32_GateTornDown ==
    /\ \A n \in NavIds :
          navs[n].backgroundFired => n \notin listeners /\ n \notin timers
    /\ \A n \in listeners \cup timers : Armed(n)
    /\ Cardinality(listeners) <= 1
    /\ Cardinality(timers) <= 1

\* the gate of the first call has fired and that of the second is armed
C32_Witness ==
    /\ MaxNavs >= 2
    /\ navs[1].backgroundFired /\ navs[1].bgCalls = 1
    /\ Armed(2)
    /\ listeners = {2} /\ timers = {2}

\* C33: every call of the patched visit either calls the original visit
\* once, with the call's target, and renders nothing and arms nothing, or
\* requests one optimistic render and arms one gate without calling the
\* original visit; the background request of that gate goes to the call's
\* target.
C33_NoCallDropped ==
    [][/\ \A href \in Hrefs, options \in CallerOptions :
             PatchedVisit(href, options) =>
                 \/ /\ visitCount' = visitCount + 1
                    /\ lastVisit'.nav = calls' /\ lastVisit'.target = "caller"
                    /\ pendingRender' = pendingRender
                    /\ calls' \notin listeners' \cup timers'
                    /\ cancelPendingBackground' # calls'
                    /\ navs'[calls'].path \in {"skip", "passthrough"}
                 \/ /\ visitCount' = visitCount
                    /\ pendingRender'.nav = calls'
                    /\ listeners' = {calls'} /\ timers' = {calls'}
                    /\ cancelPendingBackground' = calls'
                    /\ navs'[calls'].path = "optimistic"
                    /\ navs'[calls'].href = href
                    /\ navs'[calls'].bgCalls = 0
       /\ \A n \in NavIds :
             IssuesBackground(n) =>
                 /\ navs'[n].bgCalls = 1
                 /\ visitCount' = visitCount + 1
                 /\ lastVisit'.nav = n /\ lastVisit'.target = "caller"]_vars

\* an optimistic call was followed by a cache-gated call that went to the
\* original visit
C33_Witness ==
    /\ MaxNavs >= 2
    /\ navs[1].path = "optimistic"
    /\ navs[2].path = "passthrough"
    /\ lastCall = [nav |-> 2, path |-> "passthrough", reason |-> "gated"]
    /\ lastVisit.nav = 2

\* the call gets as far as shouldOptimisticallyNavigate
ReachesShould(href, options) ==
    /\ options.method \in {"undefined", "get"}
    /\ ~StartsWith(href.text, "#")
    /\ href.text # currentPage.url /\ TargetPath(href) # currentPage.url
    /\ IsAbsolute(href.text) => (Parseable(href.text) /\ OriginOf(href.text) = CurrentOrigin)
    /\ TargetMatch(href).found

\* C34: shouldOptimisticallyNavigate is true exactly when the engine is
\* enabled, an attached evaluator does not return false for the route's
\* guards, and the route has no auth guard or the current page holds a user.
C34_ShouldExactly ==
    [][\A href \in Hrefs, options \in CallerOptions :
          (PatchedVisit(href, options) /\ ReachesShould(href, options)) =>
              LET guards == TargetMatch(href).route.middleware
                  allowed == /\ enabled
                             /\ ~(preflight /\ check(pfData, guards, now) = "false")
                             /\ (\A i \in 1..Len(guards) : guards[i] # "auth") \/ currentPage.user
              IN  IF allowed
                  THEN lastCall'.path \in {"optimistic", "passthrough"}
                  ELSE lastCall' = [nav |-> calls', path |-> "skip", reason |-> "should"]]_vars

\* the auth fallback has vetoed a call although the evaluator returns true
C34_Witness ==
    /\ lastCall.path = "skip" /\ lastCall.reason = "should"
    /\ enabled /\ preflight
    /\ ~currentPage.user
    /\ check(pfData, <<"auth", "verified">>, now) = "true"

\* C39: while the optimistic render of a call is under way and its gate has
\* neither fired nor been cancelled, the 'navigate' subscription, the fallback
\* timer and the cancel handle of the call are in place; a 'navigate' fired
\* by that render issues the background request, and a call or a remove()
\* that follows cancels the gate.
C39_GateBeforeRender ==
    /\ [](\A n \in NavIds :
             (pendingRender.nav = n /\ ~navs[n].backgroundFired) =>
                 /\ n \in listeners
                 /\ n \in timers
                 /\ cancelPendingBackground = n)
    /\ [][\A n \in NavIds :
             (pendingRender.nav = n /\ Armed(n)) =>
                 /\ (RenderComplete /\ pendingRender.method = "push") => IssuesBackground(n)
                 /\ (Remove \/ \E href \in Hrefs, options \in CallerOptions :
                                   PatchedVisit(href, options)) =>
                       /\ navs'[n].backgroundFired /\ navs'[n].bgCalls = 0
                       /\ n \notin listeners' /\ n \notin timers']_vars

\* the render of a call that replaces the history entry is under way with
\* the gate of the call in place
C39_Witness ==
    \E n \in NavIds :
        /\ pendingRender.nav = n
        /\ pendingRender.method = "replace"
        /\ Armed(n)
        /\ n \in listeners /\ n \in timers /\ cancelPendingBackground = n

(***************************************************************************)
(* Properties of the response callbacks (Spec).                            *)
(***************************************************************************)
\* C36: on a successful background response with the predicted view the
\* response is written to the cache and the directives of the response are
\* applied after it: afterwards no key of the cache matches any of the
\* patterns, the key of the call included, and when the key of the call
\* matches none of them the response is the most recent entry.
C36_WriteThenInvalidate ==
    [][\A r \in inflight :
          \A page \in Pages(r) :
              (/\ RespondSuccess(r, page)
               /\ r.kind = "background"
               /\ page.component = navs[r.nav].component) =>
                  LET url == navs[r.nav].url
                      hit(key) == \E i \in 1..Len(page.invalidate) :
                                      GlobTest(page.invalidate[i], key)
                  IN  /\ \A i \in 1..Len(store') : ~hit(store'[i].key)
                      /\ ~hit(url) =>
                            /\ store' # <<>>
                            /\ store'[Len(store')] =
                                  [key |-> url,
                                   page |-> [component |-> page.component, url |-> page.url,
                                             user |-> page.user, timestamp |-> now]]
                      /\ \A i \in 1..Len(store) :
                            (store[i].key # url /\ ~hit(store[i].key) /\ Len(store) < MaxEntries)
                                => \E j \in 1..Len(store') : store'[j] = store[i]]_vars

\* the only call there was has been answered with the predicted view, and
\* the directives of the response have removed the entry just written
C36_Witness ==
    /\ calls = 1
    /\ navs[1].path = "optimistic"
    /\ navs[1].settled = "success"
    /\ currentPage.url = <<"/", "u">>
    /\ store = <<>>

\* C37: the wrappers call the caller's success callback once, with the
\* response page, for every successful response of a background or a
\* cache-gated request, whether the view is the predicted one or not, and the
\* caller's error callback once, with the errors, for every failed one; the
\* engine's own state is final when they do.
C37_CallerNotifiedOnce ==
    [][\A r \in inflight :
          r.kind \in {"background", "passthrough"} =>
              /\ \A page \in Pages(r) :
                    RespondSuccess(r, page) =>
                        /\ navs[r.nav].caller = NoCallback
                        /\ navs'[r.nav].caller =
                              [times |-> 1, callback |-> "onSuccess", arg |-> "page"]
                        /\ navs'[r.nav].settled \in {"success", "mismatch"}
                        /\ r.kind = "background" => ~isLoading'
              /\ RespondError(r) =>
                    /\ navs[r.nav].caller = NoCallback
                    /\ navs'[r.nav].caller =
                          [times |-> 1, callback |-> "onError", arg |-> "errors"]
                    /\ navs'[r.nav].settled = "error"
                    /\ r.kind = "background" => ~isLoading']_vars

\* a background response with another view and a failed cache-gated request
\* have both reached the caller
C37_Witness ==
    \E n, m \in NavIds :
        /\ navs[n].path = "optimistic" /\ navs[n].settled = "mismatch"
        /\ navs[n].caller = [times |-> 1, callback |-> "onSuccess", arg |-> "page"]
        /\ navs[m].path = "passthrough" /\ navs[m].settled = "error"
        /\ navs[m].caller = [times |-> 1, callback |-> "onError", arg |-> "errors"]

(***************************************************************************)
(* Properties of the matcher on its own (MatcherSpec).                     *)
(***************************************************************************)
IsParam(seg) == ~IsWildcard(seg) /\ StartsWith(seg, ":")

AllStatic(pattern) ==
    \A i \in 1..Len(Segments(pattern)) :
        ~IsWildcard(Segments(pattern)[i]) /\ ~IsParam(Segments(pattern)[i])

HasWildcard(pattern) ==
    \E i \in 1..Len(Segments(pattern)) : IsWildcard(Segments(pattern)[i])

Parameterized(pattern) ==
    /\ ~HasWildcard(pattern)
    /\ \E i \in 1..Len(Segments(pattern)) : IsParam(Segments(pattern)[i])

\* the patterns of the manifest that match the URL of the last match
Matching ==
    { unit.manifest[i].pattern : i \in { j \in 1..Len(unit.manifest) :
          RegexTest(unit.manifest[j].pattern, normalizePath(unit.url)) } }

\* C26: when the URL is matched by an all-static pattern and by a pattern
\* with parameter or wildcard segments, match returns an all-static route, and
\* when it is matched by a parameterized pattern without wildcards and by a
\* wildcard pattern, match returns a route without wildcards.
C26_StaticThenParamThenWildcard ==
    (unit.kind = "matcher" /\ unit.url # <<>>) =>
        /\ (\E p \in Matching : AllStatic(p)) =>
              unit.result.found /\ AllStatic(unit.result.route.pattern)
        /\ (\E p \in Matching : Parameterized(p)) =>
              unit.result.found /\ ~HasWildcard(unit.result.route.pattern)

(***************************************************************************)
(* Properties of initForce10 (EngineSpec).                                 *)
(***************************************************************************)
\* the engine state apart from the record of calls
Engine(u) == <<u.initialized, u.navigator, u.config, u.visit>>

\* C30: while the engine is initialized another initForce10 call leaves
\* router.visit, the configuration and the components as they are and returns
\* a teardown that changes nothing; the teardown of the call that initialized
\* the engine puts the host's visit back and clears the guard, and a call of
\* initForce10 after it initializes again, wrapping the host's visit.
C30_DoubleInitGuarded ==
    [][/\ \A hasWindow \in BOOLEAN, on \in BOOLEAN, manifest \in Manifests :
             initForce10(hasWindow, on, manifest) =>
                 /\ unit.initialized =>
                       /\ Engine(unit') = Engine(unit)
                       /\ unit'.handles[Len(unit'.handles)] # "real"
                 /\ (~unit.initialized /\ hasWindow /\ on /\ manifest = "routes") =>
                       /\ unit'.initialized
                       /\ unit'.visit = Len(unit'.handles)
                       /\ unit'.captured[Len(unit'.handles)] = 0
       /\ \A i \in 1..MaxInits :
             Teardown(i) =>
                 /\ unit.handles[i] # "real" => Engine(unit') = Engine(unit)
                 /\ (unit.handles[i] = "real" /\ unit.navigator = i) =>
                       /\ unit'.visit = 0
                       /\ ~unit'.initialized
                       /\ unit'.navigator = 0]_vars

\* a second call was turned away by the guard and its teardown called, the
\* first call's teardown was called, and a third call has initialized again
C30_Witness ==
    /\ unit.kind = "engine"
    /\ Len(unit.handles) = 3
    /\ unit.handles[1] = "real"
    /\ unit.handles[2] = "guard"
    /\ unit.handles[3] = "real"
    /\ unit.initialized
    /\ unit.visit = 3
    /\ unit.captured[3] = 0

(***************************************************************************)
(* Further properties of the cache on its own (CacheSpec).                 *)
(***************************************************************************)
\* C40: updateProps(url, data) on a key without an entry leaves the cache
\* unchanged; on a key with an entry it puts data over the entry's data and
\* sets the entry's timestamp to now, so that get returns the entry, and it
\* leaves every other entry and the order as they are.
C40_UpdatePropsFrame ==
    [][\A url \in CacheKeys, props \in CacheProps :
          CacheUpdateProps(url, props) =>
              /\ KeysOf(unit'.store) = KeysOf(unit.store)
              /\ \A i \in 1..Len(unit.store) :
                    IF unit.store[i].key # url
                    THEN unit'.store[i] = unit.store[i]
                    ELSE /\ unit'.store[i].page.timestamp = unit.t
                         /\ unit'.store[i].page.user =
                               IF props.hasAuth THEN props.user
                               ELSE unit.store[i].page.user
                         /\ unit'.store[i].page.component = unit.store[i].page.component
                         /\ unit'.store[i].page.url = unit.store[i].page.url
                         /\ cacheGet(unit'.store, url, unit'.t).found
                         /\ cacheGet(unit'.store, url, unit'.t).page = unit'.store[i].page]_vars

\* updateProps has refreshed an entry that had expired, while another entry
\* is in the cache
C40_Witness ==
    /\ unit.kind = "cache"
    /\ unit.result.op = "updateProps"
    /\ unit.result.found
    /\ unit.t - unit.result.page.timestamp > Ttl
    /\ Len(unit.store) = 2
    /\ cacheGet(unit.store, unit.result.key, unit.t).found

(***************************************************************************)
(* Further properties of the matcher on its own (MatcherSpec).             *)
(***************************************************************************)
\* the segments of the path of a URL: query string and fragment removed, one
\* trailing slash dropped
PathSegments(url) ==
    LET cut(str, ch) == IF \E i \in 1..Len(str) : str[i] = ch
                        THEN SubSeq(str, 1, (CHOOSE i \in 1..Len(str) :
                                 str[i] = ch /\ \A j \in 1..(i - 1) : str[j] # ch) - 1)
                        ELSE str
        path == cut(cut(url, "#"), "?")
        bare == IF Len(path) > 1 /\ path[Len(path)] = "/"
                THEN SubSeq(path, 1, Len(path) - 1) ELSE path
    IN  Tail(Split(bare, "/"))

\* the pattern segments pat match the path segments segs: a static segment
\* matches itself, a parameter one segment (an optional one also none), a
\* wildcard any number of segments
RECURSIVE Structural(_, _)
Structural(pat, segs) ==
    IF pat = <<>> THEN segs = <<>> \/ segs = << <<>> >>
    ELSE IF IsWildcard(Head(pat))
    THEN \E k \in 0..Len(segs) : Structural(Tail(pat), SubSeq(segs, k + 1, Len(segs)))
    ELSE IF IsParam(Head(pat))
    THEN \/ IsOptional(Head(pat)) /\ Structural(Tail(pat), segs)
         \/ segs # <<>> /\ Head(segs) # <<>> /\ Structural(Tail(pat), Tail(segs))
    ELSE segs # <<>> /\ Head(segs) = Head(pat) /\ Structural(Tail(pat), Tail(segs))

\* 3 per static, 2 per parameter and 1 per wildcard segment
Score(pattern) ==
    LET segs == Segments(pattern)
        idx == 1..Len(segs)
    IN  3 * Cardinality({i \in idx : ~IsWildcard(segs[i]) /\ ~IsParam(segs[i])})
          + 2 * Cardinality({i \in idx : IsParam(segs[i])})
          + Cardinality({i \in idx : IsWildcard(segs[i])})

\* the positions in the manifest of the routes that match the URL of the last
\* match
Candidates ==
    { i \in 1..Len(unit.manifest) :
          Structural(Segments(unit.manifest[i].pattern), PathSegments(unit.url)) }

C38_InertInit ==
    [][/\ \A hasWindow \in BOOLEAN, on \in BOOLEAN, manifest \in Manifests :
             (initForce10(hasWindow, on, manifest)
                 /\ (~hasWindow \/ ~on \/ manifest # "routes")) =>
                 /\ Len(unit'.handles) = Len(unit.handles) + 1
                 /\ unit'.handles[Len(unit'.handles)] \in {"ssr", "guard", "disabled", "empty"}
                 /\ unit'.visit = unit.visit
                 /\ unit'.initialized = unit.initialized
                 /\ unit'.navigator = unit.navigator
       /\ \A i \in 1..MaxInits :
             (Teardown(i) /\ unit.handles[i] \in {"ssr", "disabled", "empty"}) =>
                 Engine(unit') = Engine(unit)]_vars

\* calls without a window, with a disabled config and with an empty manifest
\* have left the engine uninitialized and router.visit the host's
C38_Witness ==
    /\ unit.kind = "engine"
    /\ unit.handles = <<"ssr", "disabled", "empty">>
    /\ ~unit.initialized
    /\ unit.visit = 0
    /\ unit.navigator = 0
    /\ unit.last.op = "teardown"

====
